---- MODULE Spec2Model ----
(***************************************************************************)
(* The three-stage frame pipeline of python_client/camera_publisher.py:    *)
(* capture thread -> raw_frame_queue -> processing thread ->               *)
(* processed_frame_queue -> publish timer, with the shutdown path of       *)
(* main()/destroy_node().  Frames are identified by their capture number.  *)
(* Every step is one operation a Python thread performs without another    *)
(* thread being able to interleave inside it (one queue call under the     *)
(* queue's mutex, one attribute read or write).                            *)
(***************************************************************************)
EXTENDS Naturals, Sequences, FiniteSets

\* Number of frames the camera delivers in a checked run.
MaxFrames == 4
\* Number of frames produced in the relay-queue scenario (SpecRelay).
MaxPuts == 10
\* Number of frames the camera delivers in the format runs (SpecFormat).
FormatFrames == 3
\* queue.Queue(maxsize=2), for both relay queues.
maxsize == 2
\* Saturation value of the per-event counters below.
CountCap == 2

\* "No frame": the value of a local variable that holds no frame.
NoFrame == 0

VARIABLES
  running,                \* self.running
  cap_released,           \* self.cap.release() has been called
  aborted,                \* the process died in the capture library
  raw_frame_queue,        \* self.raw_frame_queue, oldest item first
  processed_frame_queue,  \* self.processed_frame_queue, oldest item first
  frame_count,            \* self.frame_count
  nextFrame,              \* capture number of the next frame the camera delivers
  pcCap,                  \* position of the capture thread in capture_loop
  capFrame,               \* capture_loop's local `frame`
  readOnReleased,         \* the read in progress was called on a released handle
  pcProc,                 \* position of the processing thread in processing_loop
  procFrame,              \* processing_loop's local `frame` / `processed_data`
  pcPub,                  \* position of the timer callback publish_frame
  pubFrame,               \* publish_frame's local tuple taken from the queue
  pcMain,                 \* position of main(): spin, then the finally block
  published,              \* frames handed to self.publisher.publish, in order
  discarded,              \* frames dropped anywhere in the pipeline
  tickTakes,              \* get_nowait calls made by the current/last tick
  tickPubs,               \* publish calls made by the current/last tick
  capEnqAfterStop,        \* frames capture_loop enqueued while running was False
  procConvAfterStop,      \* frames processing_loop converted while running was False
  procEnqAfterStop,       \* frames processing_loop enqueued while running was False
  attrs,                  \* attributes __init__ has assigned so far
  encoding_arg,           \* the `encoding` argument of __init__ (--encoding)
  encoding,               \* self.encoding
  frame_shape,            \* frame.shape[:2] of the frames the camera delivers
  packaged,               \* processed_data built for each converted frame
  published_img,          \* the Image records given to publish, in order
  log                     \* warnings and errors written to the logger, by kind

VARIABLES
  ucm,                    \* a UnifiedControlMessage object update_from_json is called on
  control_data,           \* LoadExcClient.control_data
  json_data,              \* the parsed text of the control message handled last
  ctl_result,             \* outcome of the last update_from_json / control_callback
  script,                 \* the streaming script that runs
  response,               \* what the token service answers to requests.get
  token,                  \* main(): token, the value get_livekit_token returned
  pcScript,               \* position of the script's main() coroutine
  connect_token,          \* the token room.connect was called with
  camera_state,           \* the script's camera object: none, started, stopped
  room_state,             \* the rtc.Room: none, created, connected, disconnected
  loop_state,             \* the asyncio event loop: running, stopped, closed
  delivered,              \* shape of the frames the capture device delivers
  video_frames,           \* the rtc.VideoFrame objects given to capture_frame
  stream_log,             \* lines the script has logged, by kind
  pcTester,               \* position of the tester's main()
  pcRunTest,              \* position of the test thread in run_test
  elapsed,                \* whole seconds of time.time() - start_time
  control_count,          \* ROS2ConnectionTester.control_count
  video_count             \* ROS2ConnectionTester.video_count

VARIABLES
  objects,                \* the UnifiedControlMessage objects of LoadExcClient, by identity
  control_ref,            \* which object self.control_data refers to
  new_control,            \* control_callback: new_control
  current_control,        \* publish_video_frame: current_control
  current_time,           \* publish_video_frame: current_time
  pcCallback,             \* position of control_callback
  pcTick,                 \* position of publish_video_frame
  control_lock,           \* holder of self.control_lock
  time_ms,                \* int(time.time() * 1000)
  rendered,               \* what render_frame_for_streaming drew last
  executor                \* how callbacks are run: one at a time, or in threads

nodeVars == <<objects, control_ref, new_control, current_control, current_time,
              pcCallback, pcTick, control_lock, time_ms, rendered, executor>>
ctlVars == <<ucm, control_data, json_data, ctl_result, nodeVars>>
streamVars == <<script, response, token, pcScript, connect_token, camera_state,
                room_state, loop_state, delivered, video_frames, stream_log>>
testerVars == <<pcTester, pcRunTest, elapsed, control_count, video_count>>
\* The programs of the repository other than camera_publisher.
otherVars == <<ctlVars, streamVars, testerVars>>

\* The variables of camera_publisher.
pipelineVars ==
  <<running, cap_released, aborted, raw_frame_queue, processed_frame_queue,
    frame_count, nextFrame, pcCap, capFrame, readOnReleased, pcProc,
    procFrame, pcPub, pubFrame, pcMain, published, discarded, tickTakes,
    tickPubs, capEnqAfterStop, procConvAfterStop, procEnqAfterStop,
    attrs, encoding_arg, encoding, frame_shape, packaged, published_img,
    log>>

vars == <<pipelineVars, otherVars>>

capVars  == <<pcCap, capFrame, readOnReleased, nextFrame>>
procVars == <<pcProc, procFrame, frame_count>>
pubVars  == <<pcPub, pubFrame, published, tickTakes, tickPubs>>
mainVars == <<pcMain, running, cap_released>>
stopCounters == <<capEnqAfterStop, procConvAfterStop, procEnqAfterStop>>
cfgVars  == <<attrs, encoding_arg, encoding, frame_shape>>

Bump(n) == IF n < CountCap THEN n + 1 ELSE CountCap

(***************************************************************************)
(* queue.Queue                                                             *)
(***************************************************************************)
\* Queue.full(): put_nowait raises queue.Full exactly when this holds.
QueueFull(q) == Len(q) >= maxsize
\* Queue.empty(): get/get_nowait raise queue.Empty exactly when this holds.
QueueEmpty(q) == Len(q) = 0
\* The queue after a successful put: the item goes to the tail.
QueuePut(q, item) == Append(q, item)
\* A get that returns the newest item (queue.LifoQueue in place of queue.Queue).
QueueGetLifo(q) == [item |-> q[Len(q)], rest |-> SubSeq(q, 1, Len(q) - 1)]

\* A successful get: the item returned is the head (queue.Queue is FIFO) and
\* the rest stays queued.
QueueGet(q) == [item |-> Head(q), rest |-> Tail(q)]

(***************************************************************************)
(* Configuration and pixel formats                                         *)
(***************************************************************************)
\* main(): --width and --height defaults, taken as the shape of the frames
\* the camera delivers in the default run.
DefaultWidth == 1280
DefaultHeight == 720
\* main(): --encoding default.
DefaultEncoding == "I420"
\* Values of --encoding and frame shapes of the format runs (SpecFormat).
EncodingArgs == {"I420", "rgb8", "BGR8", "mono8"}
FrameShapes ==
  {[h |-> DefaultHeight, w |-> DefaultWidth], [h |-> 2, w |-> 4], [h |-> 3, w |-> 4]}

\* str.lower() on the encoding names in use.
Lower(s) ==
  CASE s = "I420" -> "i420"
    [] s = "RGB8" -> "rgb8"
    [] s = "BGR8" -> "bgr8"
    [] s = "MONO8" -> "mono8"
    [] OTHER -> s

\* The encodings __init__ accepts: ('bgr8', 'rgb8', 'i420').
SupportedEncodings == {"bgr8", "rgb8", "i420"}

\* cv2.cvtColor(frame, COLOR_BGR2YUV_I420) rejects a frame with an odd width
\* or height; the other two branches accept every three-channel frame.
ConversionRejects(enc, shape) ==
  enc = "i420" /\ (shape.w % 2 # 0 \/ shape.h % 2 # 0)

\* len(data) of a packed two-bytes-per-pixel buffer (YUYV) for i420.
PayloadLenPacked(enc, shape) ==
  IF enc = "i420" THEN shape.h * shape.w * 2
                  ELSE shape.h * shape.w * 3

\* len(data): the I420 array has h*3/2 rows of w bytes; rgb and bgr keep the
\* three bytes per pixel of the captured frame.
PayloadLen(enc, shape) ==
  IF enc = "i420" THEN ((shape.h * 3) \div 2) * shape.w
                  ELSE shape.h * shape.w * 3

\* step: `step = w`, replaced by `w * 3` in the rgb8 and bgr8 branches.
RowStep(enc, shape) == IF enc = "i420" THEN shape.w ELSE shape.w * 3

\* processed_data = (data, h, w, encoding, step), data kept by its length.
\* The tag is set anew in each branch; the last branch takes every encoding
\* that is neither 'i420' nor 'rgb8'.
ProcessedData(enc, shape) ==
  [data_len |-> PayloadLen(enc, shape),
   h        |-> shape.h,
   w        |-> shape.w,
   encoding |-> IF enc \in {"i420", "rgb8"} THEN enc ELSE "bgr8",
   step     |-> RowStep(enc, shape)]

\* An Image message filled with the tuple's h and w exchanged.
ImageMsgSwapped(t) ==
  [frame_id     |-> "camera_link",
   height       |-> t.w,
   width        |-> t.h,
   encoding     |-> t.encoding,
   is_bigendian |-> 0,
   step         |-> t.step,
   data_len     |-> t.data_len]

\* The Image message publish_frame fills from the tuple it took.
ImageMsg(t) ==
  [frame_id     |-> "camera_link",
   height       |-> t.h,
   width        |-> t.w,
   encoding     |-> t.encoding,
   is_bigendian |-> 0,
   step         |-> t.step,
   data_len     |-> t.data_len]

(***************************************************************************)
(* control_message.py: UnifiedControlMessage                               *)
(***************************************************************************)
\* Largest number of keys in the v object of a control message.
MaxAxes == 2
\* Axis values in tenths (5 is 0.5) and the 't' values of the messages.
AxisValues == {5}
Stamps == {1000, 2000}
\* int(time.time() * 1000) when a UnifiedControlMessage is constructed.
ConstructStamp == 500

\* The analog attributes of UnifiedControlMessage.
AxisFields == {"rotation", "brake", "throttle", "boom", "bucket",
               "left_track", "right_track", "swing", "stick"}
\* The key of the v object each attribute is read from.
WireKey(field) ==
  CASE field = "left_track"  -> "leftTrack"
    [] field = "right_track" -> "rightTrack"
    [] OTHER -> field
\* Keys a v object may carry: the nine the code reads and one it does not.
VKeys == {WireKey(f) : f \in AxisFields} \cup {"left_track"}
Gears == {"P", "R", "N", "D"}

\* UnifiedControlMessage.__init__
UnifiedControlMessage(now) ==
  [rotation |-> 0, brake |-> 0, throttle |-> 0, gear |-> "N",
   boom |-> 0, bucket |-> 0,
   left_track |-> 0, right_track |-> 0, swing |-> 0, stick |-> 0,
   device_type |-> "wheel_loader", timestamp |-> now]

\* The v objects of the checked messages.
VObjects ==
  UNION {[K -> AxisValues] : K \in {S \in SUBSET VKeys : Cardinality(S) <= MaxAxes}}

\* A control message as json.loads sees it.  kind: "object" for a JSON
\* object, "number" for a JSON number, "not_json" for text that does not
\* parse.  keys: the keys the object has; a field whose key is absent holds
\* a filler.  v_is_object: the value under 'v' is a JSON object.
JsonMessage(kind, keys, type, gear, v_is_object, v, t) ==
  [kind |-> kind, keys |-> keys, type |-> type, gear |-> gear,
   v_is_object |-> v_is_object, v |-> v, t |-> t]
NoV == [k \in {} |-> 0]
AnalogMessages ==
  {JsonMessage("object", {"type", "v"}, "analog", "N", TRUE, v, ConstructStamp) :
     v \in VObjects}
  \cup {JsonMessage("object", {"type", "v", "t"}, "analog", "N", TRUE, v, t) :
          v \in VObjects, t \in Stamps}
GearMessages ==
  {JsonMessage("object", {"type", "gear"}, "gear", g, TRUE, NoV, ConstructStamp) :
     g \in Gears}
  \cup {JsonMessage("object", {"type", "gear", "t"}, "gear", g, TRUE, NoV, t) :
          g \in Gears, t \in Stamps}
OddMessages ==
  {JsonMessage("not_json", {}, "", "N", TRUE, NoV, 1000),
   JsonMessage("number", {}, "", "N", TRUE, NoV, 1000),
   JsonMessage("object", {"t"}, "", "N", TRUE, NoV, 2000),
   JsonMessage("object", {"type", "t"}, "gear", "N", TRUE, NoV, 2000),
   JsonMessage("object", {"type", "t"}, "analog", "N", TRUE, NoV, 2000),
   JsonMessage("object", {"type", "v", "t"}, "analog", "N", FALSE, NoV, 2000),
   JsonMessage("object", {"type", "v", "gear", "t"}, "status", "D", TRUE,
               [k \in {"throttle"} |-> 5], 2000)}
Messages == AnalogMessages \cup GearMessages \cup OddMessages

\* v_obj.get(key, default)
DictGet(v_obj, key, default) ==
  IF key \in DOMAIN v_obj THEN v_obj[key] ELSE default

\* An update whose absent axes fall back to 0.0 (`v_obj.get('rotation', 0.0)`).
AnalogUpdateZero(self, v_obj) ==
  [self EXCEPT !.rotation    = DictGet(v_obj, "rotation", 0),
               !.brake       = DictGet(v_obj, "brake", 0),
               !.throttle    = DictGet(v_obj, "throttle", 0),
               !.boom        = DictGet(v_obj, "boom", 0),
               !.bucket      = DictGet(v_obj, "bucket", 0),
               !.left_track  = DictGet(v_obj, "leftTrack", 0),
               !.right_track = DictGet(v_obj, "rightTrack", 0),
               !.swing       = DictGet(v_obj, "swing", 0),
               !.stick       = DictGet(v_obj, "stick", 0)]

\* The nine assignments of the analog branch.
AnalogUpdate(self, v_obj) ==
  [self EXCEPT !.rotation    = DictGet(v_obj, "rotation", self.rotation),
               !.brake       = DictGet(v_obj, "brake", self.brake),
               !.throttle    = DictGet(v_obj, "throttle", self.throttle),
               !.boom        = DictGet(v_obj, "boom", self.boom),
               !.bucket      = DictGet(v_obj, "bucket", self.bucket),
               !.left_track  = DictGet(v_obj, "leftTrack", self.left_track),
               !.right_track = DictGet(v_obj, "rightTrack", self.right_track),
               !.swing       = DictGet(v_obj, "swing", self.swing),
               !.stick       = DictGet(v_obj, "stick", self.stick)]

\* UnifiedControlMessage.update_from_json: the object after the call and
\* what the call does: "True", "False", or "AttributeError" when v is not
\* an object (v_obj.get does not exist; the except clause does not name
\* AttributeError, so it leaves the method).  `'t' in data` on a number
\* raises TypeError, which is caught.  The timestamp is assigned first and
\* stays assigned when a later statement raises.
update_from_json(self, data) ==
  IF data.kind # "object"
    THEN [obj |-> self, ret |-> "False"]
    ELSE
      LET stamped == IF "t" \in data.keys
                       THEN [self EXCEPT !.timestamp = data.t]
                       ELSE self
      IN IF "type" \notin data.keys
           THEN [obj |-> stamped, ret |-> "True"]
           ELSE IF data.type = "gear" /\ "gear" \in data.keys
             THEN [obj |-> [stamped EXCEPT !.gear = data.gear], ret |-> "True"]
             ELSE IF data.type = "analog" /\ "v" \in data.keys
               THEN IF data.v_is_object
                      THEN [obj |-> AnalogUpdate(stamped, data.v), ret |-> "True"]
                      ELSE [obj |-> stamped, ret |-> "AttributeError"]
               ELSE [obj |-> stamped, ret |-> "True"]

\* Objects that can be referred to at once besides the one in control_data:
\* new_control of the callback and current_control of the tick.
MaxLive == 2
\* Identities of the UnifiedControlMessage objects; the one __init__
\* constructs is 0, and an identity nothing refers to is used again.
ObjIds == 0 .. MaxLive
\* A local variable that refers to no object.
NoRef == MaxLive + 1
\* Values of int(time.time() * 1000) after the node was constructed.
Clock == {3000, 4000, 5000}
\* No frame has been rendered.
NoRender == [control |-> UnifiedControlMessage(ConstructStamp),
             now_ms |-> ConstructStamp, latency_ms |-> 0]

\* LoadExcClient.__init__ is over: control_data is a new
\* UnifiedControlMessage, the lock is free and no callback runs.
NodeState(exec) ==
  /\ objects = [i \in ObjIds |-> UnifiedControlMessage(ConstructStamp)]
  /\ control_ref = 0
  /\ new_control = NoRef
  /\ current_control = NoRef
  /\ current_time = ConstructStamp
  /\ pcCallback = "idle"
  /\ pcTick = "idle"
  /\ control_lock = "free"
  /\ time_ms = ConstructStamp
  /\ rendered = NoRender
  /\ executor = exec
\* rclpy.spin(client): the single-threaded executor.
NodeIdle == NodeState("single")

\* No control message has been handled.
ControlInit ==
  /\ ucm = UnifiedControlMessage(ConstructStamp)
  /\ control_data = UnifiedControlMessage(ConstructStamp)
  /\ json_data = JsonMessage("not_json", {}, "", "N", TRUE, NoV, 1000)
  /\ ctl_result = "none"
  /\ NodeIdle

(***************************************************************************)
(* scripts/get_token.py: get_livekit_token                                 *)
(***************************************************************************)
\* Python values the token can be, by type and text.
PyNone == [kind |-> "None", value |-> ""]
PyStr(s) == [kind |-> "str", value |-> s]
\* The answers of the token service: requests.get raises, raise_for_status
\* raises, the body is not JSON, the body is a JSON array, or the body is a
\* JSON object whose 'token' is absent, null, a string, a number or an
\* array.
TokenFields ==
  {[kind |-> "absent", value |-> ""], [kind |-> "null", value |-> ""],
   PyStr(""), PyStr("jwt-1"), PyStr("jwt-2"),
   [kind |-> "int", value |-> "0"], [kind |-> "int", value |-> "7"],
   [kind |-> "list", value |-> "[jwt-1]"]}
Responses ==
  {[kind |-> k, token |-> [kind |-> "absent", value |-> ""]] :
     k \in {"transport_error", "http_error", "not_json", "json_list"}}
  \cup {[kind |-> "json_object", token |-> t] : t \in TokenFields}

\* bool(value) for the values above.
Truthy(value) ==
  \/ value.kind = "str" /\ value.value # ""
  \/ value.kind = "int" /\ value.value # "0"
  \/ value.kind = "list"

\* A get_livekit_token that reads data['token'] and has no handler for
\* exceptions other than those of requests.
get_livekit_token_strict(resp) ==
  IF resp.kind \in {"transport_error", "http_error", "not_json"}
    THEN PyNone
    ELSE IF resp.kind = "json_list" \/ resp.token.kind = "absent"
      THEN [kind |-> "raised", value |-> ""]
      ELSE IF resp.token.kind = "int" /\ Truthy(resp.token)
        THEN [kind |-> "raised", value |-> ""]
        ELSE IF Truthy(resp.token) THEN resp.token ELSE PyNone

\* get_livekit_token: requests.get and raise_for_status raise
\* RequestException, and so does response.json() on a body that is not
\* JSON; data.get on an array raises AttributeError and token[:20] on a
\* number raises TypeError, both caught by `except Exception`; all handlers
\* return None.  A falsy token gives None; otherwise the token is returned.
get_livekit_token(resp) ==
  IF resp.kind \in {"transport_error", "http_error", "not_json"}
    THEN PyNone
    ELSE IF resp.kind = "json_list"
      THEN PyNone
      ELSE IF ~Truthy(resp.token)
        THEN PyNone
        ELSE IF resp.token.kind = "int"
          THEN PyNone
          ELSE resp.token

(***************************************************************************)
(* The streaming scripts and the connection tester before they start       *)
(***************************************************************************)
\* WIDTH, HEIGHT of the streaming scripts.
WIDTH == 1280
HEIGHT == 720
NoValue == [kind |-> "unset", value |-> ""]

StreamIdle ==
  /\ script = "test_camera_fixed"
  /\ response = [kind |-> "transport_error", token |-> NoValue]
  /\ token = NoValue
  /\ pcScript = "unstarted"
  /\ connect_token = NoValue
  /\ camera_state = "none"
  /\ room_state = "none"
  /\ loop_state = "none"
  /\ delivered = [h |-> HEIGHT, w |-> WIDTH]
  /\ video_frames = {}
  /\ stream_log = {}

TesterIdle ==
  /\ pcTester = "unstarted"
  /\ pcRunTest = "unstarted"
  /\ elapsed = 0
  /\ control_count = 0
  /\ video_count = 0

\* The state when __init__ is entered with the given --encoding and a camera
\* that delivers frames of the given shape: nothing is assigned yet, no
\* thread runs, there is no timer.
PipelineState(arg, shape) ==
  /\ running = FALSE
  /\ cap_released = FALSE
  /\ aborted = FALSE
  /\ raw_frame_queue = <<>>
  /\ processed_frame_queue = <<>>
  /\ frame_count = 0
  /\ nextFrame = 1
  /\ pcCap = "unstarted"
  /\ capFrame = NoFrame
  /\ readOnReleased = FALSE
  /\ pcProc = "unstarted"
  /\ procFrame = NoFrame
  /\ pcPub = "none"
  /\ pubFrame = NoFrame
  /\ pcMain = "init_encoding"
  /\ published = <<>>
  /\ discarded = {}
  /\ tickTakes = 0
  /\ tickPubs = 0
  /\ capEnqAfterStop = 0
  /\ procConvAfterStop = 0
  /\ procEnqAfterStop = 0
  /\ attrs = {}
  /\ encoding_arg = arg
  /\ encoding = arg
  /\ frame_shape = shape
  /\ packaged = [f \in {} |-> NoFrame]
  /\ published_img = <<>>
  /\ log = {}

\* The same with the other programs of the repository not started.
InitState(arg, shape) ==
  /\ PipelineState(arg, shape)
  /\ ControlInit
  /\ StreamIdle
  /\ TesterIdle

Init == InitState(DefaultEncoding, [h |-> DefaultHeight, w |-> DefaultWidth])

(***************************************************************************)
(* __init__                                                                *)
(***************************************************************************)
initFrame == <<cap_released, aborted, raw_frame_queue, processed_frame_queue,
               frame_count, nextFrame, capFrame, readOnReleased, procFrame,
               pubFrame, published, discarded, tickTakes, tickPubs,
               stopCounters, encoding_arg, frame_shape, packaged, published_img>>

\* An __init__ that keeps whatever --encoding names (the fallback left out).
init_encoding_nofallback ==
  /\ pcMain = "init_encoding"
  /\ encoding' = Lower(encoding_arg)
  /\ attrs' = attrs \cup {"encoding"}
  /\ pcMain' = "open_camera"
  /\ UNCHANGED <<initFrame, log, running, pcCap, pcProc, pcPub>>
  /\ UNCHANGED otherVars

\* self.encoding = encoding.lower(); a value outside the supported three is
\* replaced by 'i420' with a warning.
init_encoding ==
  /\ pcMain = "init_encoding"
  /\ IF Lower(encoding_arg) \in SupportedEncodings
       THEN /\ encoding' = Lower(encoding_arg)
            /\ UNCHANGED log
       ELSE /\ encoding' = "i420"
            /\ log' = log \cup {"encoding_warn"}
  /\ attrs' = attrs \cup {"encoding"}
  /\ pcMain' = "open_camera"
  /\ UNCHANGED <<initFrame, running, pcCap, pcProc, pcPub>>
  /\ UNCHANGED otherVars

\* An open failure that is logged without sys.exit(1): __init__ goes on.
init_open_camera_continue ==
  /\ pcMain = "open_camera"
  /\ \/ /\ attrs' = attrs \cup {"cap"}
        /\ UNCHANGED log
     \/ /\ log' = log \cup {"open_error"}
        /\ UNCHANGED attrs
  /\ pcMain' = "queues"
  /\ UNCHANGED <<initFrame, encoding, running, pcCap, pcProc, pcPub>>
  /\ UNCHANGED otherVars

\* self.cap = open_camera(camera_source); when no device opens, two error
\* lines and sys.exit(1).  SystemExit leaves __init__ and main(), whose
\* finally block finds node = None.
init_open_camera ==
  /\ pcMain = "open_camera"
  /\ \/ /\ attrs' = attrs \cup {"cap"}
        /\ pcMain' = "queues"
        /\ UNCHANGED log
     \/ /\ pcMain' = "sys_exit"
        /\ log' = log \cup {"open_error"}
        /\ UNCHANGED attrs
  /\ UNCHANGED <<initFrame, encoding, running, pcCap, pcProc, pcPub>>
  /\ UNCHANGED otherVars

\* An __init__ that constructs processed_frame_queue lazily, not here.
init_queues_raw_only ==
  /\ pcMain = "queues"
  /\ attrs' = attrs \cup {"raw_frame_queue"}
  /\ pcMain' = "running"
  /\ UNCHANGED <<initFrame, encoding, log, running, pcCap, pcProc, pcPub>>
  /\ UNCHANGED otherVars

\* self.raw_frame_queue = queue.Queue(maxsize=2);
\* self.processed_frame_queue = queue.Queue(maxsize=2)
init_queues ==
  /\ pcMain = "queues"
  /\ attrs' = attrs \cup {"raw_frame_queue", "processed_frame_queue"}
  /\ pcMain' = "running"
  /\ UNCHANGED <<initFrame, encoding, log, running, pcCap, pcProc, pcPub>>
  /\ UNCHANGED otherVars

\* self.capture_thread = None; self.processing_thread = None;
\* self.running = True
init_running ==
  /\ pcMain = "running"
  /\ running' = TRUE
  /\ attrs' = attrs \cup {"running"}
  /\ pcMain' = "start_capture"
  /\ UNCHANGED <<initFrame, encoding, log, pcCap, pcProc, pcPub>>
  /\ UNCHANGED otherVars

\* self.start_capture_thread()
start_capture_thread ==
  /\ pcMain = "start_capture"
  /\ pcCap = "unstarted"
  /\ pcCap' = "while"
  /\ attrs' = attrs \cup {"capture_thread"}
  /\ pcMain' = "start_processing"
  /\ UNCHANGED <<initFrame, encoding, log, running, pcProc, pcPub>>
  /\ UNCHANGED otherVars

\* self.start_processing_thread()
start_processing_thread ==
  /\ pcMain = "start_processing"
  /\ pcProc = "unstarted"
  /\ pcProc' = "while"
  /\ attrs' = attrs \cup {"processing_thread"}
  /\ pcMain' = "create_timer"
  /\ UNCHANGED <<initFrame, encoding, log, running, pcCap, pcPub>>
  /\ UNCHANGED otherVars

\* self.timer = self.create_timer(..., self.publish_frame); __init__ returns
\* and main() calls rclpy.spin(node).
init_create_timer ==
  /\ pcMain = "create_timer"
  /\ pcPub = "none"
  /\ pcPub' = "idle"
  /\ attrs' = attrs \cup {"timer"}
  /\ pcMain' = "spin"
  /\ UNCHANGED <<initFrame, encoding, log, running, pcCap, pcProc>>
  /\ UNCHANGED otherVars

node_init ==
  \/ init_encoding
  \/ init_open_camera
  \/ init_queues
  \/ init_running
  \/ start_capture_thread
  \/ start_processing_thread
  \/ init_create_timer

(***************************************************************************)
(* capture_loop                                                            *)
(***************************************************************************)
\* `while True:` in place of `while self.running:`.
capture_loop_while_true ==
  /\ ~aborted
  /\ pcCap = "while"
  /\ pcCap' = "read"
  /\ UNCHANGED <<capFrame, readOnReleased, nextFrame, raw_frame_queue,
                 processed_frame_queue, discarded, aborted>>
  /\ UNCHANGED <<procVars, pubVars, mainVars, stopCounters>>
  /\ UNCHANGED <<cfgVars, packaged, published_img, log>>
  /\ UNCHANGED otherVars

\* while self.running:
capture_loop_while ==
  /\ ~aborted
  /\ pcCap = "while"
  /\ pcCap' = IF running THEN "read" ELSE "done"
  /\ UNCHANGED <<capFrame, readOnReleased, nextFrame, raw_frame_queue,
                 processed_frame_queue, discarded, aborted>>
  /\ UNCHANGED <<procVars, pubVars, mainVars, stopCounters>>
  /\ UNCHANGED <<cfgVars, packaged, published_img, log>>
  /\ UNCHANGED otherVars

\* ok, frame = self.cap.read(): the call is entered.
capture_loop_read_call ==
  /\ ~aborted
  /\ pcCap = "read"
  /\ pcCap' = "reading"
  /\ readOnReleased' = cap_released
  /\ UNCHANGED <<capFrame, nextFrame, raw_frame_queue, processed_frame_queue,
                 discarded, aborted>>
  /\ UNCHANGED <<procVars, pubVars, mainVars, stopCounters>>
  /\ UNCHANGED <<cfgVars, packaged, published_img, log>>
  /\ UNCHANGED otherVars

\* A read whose absent result restarts the loop at once (`continue` without
\* time.sleep).
cap_read_busy(supply) ==
  /\ ~aborted
  /\ pcCap = "reading"
  /\ \/ /\ ~readOnReleased
        /\ nextFrame <= supply
        /\ capFrame' = nextFrame
        /\ nextFrame' = nextFrame + 1
        /\ pcCap' = "put"
        /\ UNCHANGED aborted
     \/ /\ pcCap' = "while"
        /\ UNCHANGED <<capFrame, nextFrame, aborted>>
     \/ /\ pcCap' = "raised"
        /\ UNCHANGED <<capFrame, nextFrame, aborted>>
     \/ /\ ~readOnReleased
        /\ cap_released
        /\ aborted' = TRUE
        /\ UNCHANGED <<capFrame, nextFrame, pcCap>>
  /\ UNCHANGED <<readOnReleased, raw_frame_queue, processed_frame_queue,
                 discarded>>
  /\ UNCHANGED <<procVars, pubVars, mainVars, stopCounters>>
  /\ UNCHANGED <<cfgVars, packaged, published_img, log>>
  /\ UNCHANGED otherVars

\* ok, frame = self.cap.read(): the call returns.  On an open handle it
\* delivers a frame or reports none.  Called on a released handle it reports
\* none.  When release() ran while the call was inside the capture library
\* the two calls race on the device: the read may still deliver the frame,
\* report none, or take the process down.  A read that raises (cv2.error)
\* is caught by nothing in capture_loop and ends the thread.  `supply` is
\* the number of frames the camera has to deliver in the run.
cap_read(supply) ==
  /\ ~aborted
  /\ pcCap = "reading"
  /\ \/ /\ ~readOnReleased
        /\ nextFrame <= supply
        /\ capFrame' = nextFrame
        /\ nextFrame' = nextFrame + 1
        /\ pcCap' = "put"
        /\ UNCHANGED aborted
     \/ /\ pcCap' = "sleep"
        /\ UNCHANGED <<capFrame, nextFrame, aborted>>
     \/ /\ pcCap' = "raised"
        /\ UNCHANGED <<capFrame, nextFrame, aborted>>
     \/ /\ ~readOnReleased
        /\ cap_released
        /\ aborted' = TRUE
        /\ UNCHANGED <<capFrame, nextFrame, pcCap>>
  /\ UNCHANGED <<readOnReleased, raw_frame_queue, processed_frame_queue,
                 discarded>>
  /\ UNCHANGED <<procVars, pubVars, mainVars, stopCounters>>
  /\ UNCHANGED <<cfgVars, packaged, published_img, log>>
  /\ UNCHANGED otherVars

capture_loop_read_return == cap_read(MaxFrames)

\* if not ok: time.sleep(0.01); continue
capture_loop_sleep ==
  /\ ~aborted
  /\ pcCap = "sleep"
  /\ pcCap' = "while"
  /\ UNCHANGED <<capFrame, readOnReleased, nextFrame, raw_frame_queue,
                 processed_frame_queue, discarded, aborted>>
  /\ UNCHANGED <<procVars, pubVars, mainVars, stopCounters>>
  /\ UNCHANGED <<cfgVars, packaged, published_img, log>>
  /\ UNCHANGED otherVars

\* A put that never finds the queue full (queue.Queue() without maxsize).
capture_loop_put_unbounded ==
  /\ ~aborted
  /\ pcCap = "put"
  /\ raw_frame_queue' = QueuePut(raw_frame_queue, capFrame)
  /\ capFrame' = NoFrame
  /\ pcCap' = "while"
  /\ capEnqAfterStop' =
       IF running THEN capEnqAfterStop ELSE Bump(capEnqAfterStop)
  /\ UNCHANGED <<readOnReleased, nextFrame, processed_frame_queue, discarded,
                 aborted, procConvAfterStop, procEnqAfterStop>>
  /\ UNCHANGED <<procVars, pubVars, mainVars>>
  /\ UNCHANGED <<cfgVars, packaged, published_img, log>>
  /\ UNCHANGED otherVars

\* self.raw_frame_queue.put_nowait(frame); queue.Full leads to the handler.
capture_loop_put_nowait ==
  /\ ~aborted
  /\ pcCap = "put"
  /\ IF QueueFull(raw_frame_queue)
       THEN /\ pcCap' = "evict"
            /\ UNCHANGED <<raw_frame_queue, capFrame, capEnqAfterStop>>
       ELSE /\ raw_frame_queue' = QueuePut(raw_frame_queue, capFrame)
            /\ capFrame' = NoFrame
            /\ pcCap' = "while"
            /\ capEnqAfterStop' =
                 IF running THEN capEnqAfterStop ELSE Bump(capEnqAfterStop)
  /\ UNCHANGED <<readOnReleased, nextFrame, processed_frame_queue, discarded,
                 aborted, procConvAfterStop, procEnqAfterStop>>
  /\ UNCHANGED <<procVars, pubVars, mainVars>>
  /\ UNCHANGED <<cfgVars, packaged, published_img, log>>
  /\ UNCHANGED otherVars

\* A handler that keeps the queued frames and gives up the new one
\* (`except queue.Full: pass`).
capture_loop_keep_old ==
  /\ ~aborted
  /\ pcCap = "evict"
  /\ discarded' = discarded \cup {capFrame}
  /\ capFrame' = NoFrame
  /\ pcCap' = "while"
  /\ UNCHANGED <<raw_frame_queue, readOnReleased, nextFrame,
                 processed_frame_queue, aborted>>
  /\ UNCHANGED <<procVars, pubVars, mainVars, stopCounters>>
  /\ UNCHANGED <<cfgVars, packaged, published_img, log>>
  /\ UNCHANGED otherVars

\* except queue.Full: self.raw_frame_queue.get_nowait(); queue.Empty there
\* ends the iteration with the new frame unqueued (except queue.Empty: pass).
capture_loop_get_nowait ==
  /\ ~aborted
  /\ pcCap = "evict"
  /\ IF QueueEmpty(raw_frame_queue)
       THEN /\ discarded' = discarded \cup {capFrame}
            /\ capFrame' = NoFrame
            /\ pcCap' = "while"
            /\ UNCHANGED raw_frame_queue
       ELSE /\ discarded' = discarded \cup {QueueGet(raw_frame_queue).item}
            /\ raw_frame_queue' = QueueGet(raw_frame_queue).rest
            /\ pcCap' = "put_again"
            /\ UNCHANGED <<capFrame>>
  /\ UNCHANGED <<readOnReleased, nextFrame, processed_frame_queue, aborted>>
  /\ UNCHANGED <<procVars, pubVars, mainVars, stopCounters>>
  /\ UNCHANGED <<cfgVars, packaged, published_img, log>>
  /\ UNCHANGED otherVars

\* self.raw_frame_queue.put_nowait(frame) inside the handler; a queue.Full
\* raised here is caught by nothing and ends the thread.
capture_loop_put_again ==
  /\ ~aborted
  /\ pcCap = "put_again"
  /\ IF QueueFull(raw_frame_queue)
       THEN /\ pcCap' = "raised"
            /\ discarded' = discarded \cup {capFrame}
            /\ capFrame' = NoFrame
            /\ UNCHANGED <<raw_frame_queue, capEnqAfterStop>>
       ELSE /\ raw_frame_queue' = QueuePut(raw_frame_queue, capFrame)
            /\ capFrame' = NoFrame
            /\ pcCap' = "while"
            /\ capEnqAfterStop' =
                 IF running THEN capEnqAfterStop ELSE Bump(capEnqAfterStop)
            /\ UNCHANGED discarded
  /\ UNCHANGED <<readOnReleased, nextFrame, processed_frame_queue, aborted,
                 procConvAfterStop, procEnqAfterStop>>
  /\ UNCHANGED <<procVars, pubVars, mainVars>>
  /\ UNCHANGED <<cfgVars, packaged, published_img, log>>
  /\ UNCHANGED otherVars

capture_loop ==
  \/ capture_loop_while
  \/ capture_loop_read_call
  \/ capture_loop_read_return
  \/ capture_loop_sleep
  \/ capture_loop_put_nowait
  \/ capture_loop_get_nowait
  \/ capture_loop_put_again

(***************************************************************************)
(* processing_loop                                                         *)
(***************************************************************************)
\* while self.running:
processing_loop_while ==
  /\ ~aborted
  /\ pcProc = "while"
  /\ pcProc' = IF running THEN "get" ELSE "done"
  /\ UNCHANGED <<procFrame, frame_count, raw_frame_queue, processed_frame_queue,
                 discarded, aborted>>
  /\ UNCHANGED <<capVars, pubVars, mainVars, stopCounters>>
  /\ UNCHANGED <<cfgVars, packaged, published_img, log>>
  /\ UNCHANGED otherVars

\* A get that leaves the frame it returns in the queue.
processing_loop_get_peek ==
  /\ ~aborted
  /\ pcProc = "get"
  /\ IF QueueEmpty(raw_frame_queue)
       THEN /\ pcProc' = "while"
            /\ UNCHANGED procFrame
       ELSE /\ procFrame' = QueueGet(raw_frame_queue).item
            /\ pcProc' = "convert"
  /\ UNCHANGED <<raw_frame_queue, frame_count, processed_frame_queue, discarded,
                 aborted>>
  /\ UNCHANGED <<capVars, pubVars, mainVars, stopCounters>>
  /\ UNCHANGED <<cfgVars, packaged, published_img, log>>
  /\ UNCHANGED otherVars

\* frame = self.raw_frame_queue.get(timeout=1.0): returns the oldest frame as
\* soon as there is one; with the queue still empty when the second is over
\* it raises queue.Empty, and `except queue.Empty: continue` restarts the loop.
processing_loop_get ==
  /\ ~aborted
  /\ pcProc = "get"
  /\ IF QueueEmpty(raw_frame_queue)
       THEN /\ pcProc' = "while"
            /\ UNCHANGED <<procFrame, raw_frame_queue>>
       ELSE /\ procFrame' = QueueGet(raw_frame_queue).item
            /\ raw_frame_queue' = QueueGet(raw_frame_queue).rest
            /\ pcProc' = "convert"
  /\ UNCHANGED <<frame_count, processed_frame_queue, discarded, aborted>>
  /\ UNCHANGED <<capVars, pubVars, mainVars, stopCounters>>
  /\ UNCHANGED <<cfgVars, packaged, published_img, log>>
  /\ UNCHANGED otherVars

\* A conversion whose failure puts the frame back on raw_frame_queue for
\* another attempt.
processing_loop_convert_requeue ==
  /\ ~aborted
  /\ pcProc = "convert"
  /\ frame_count' = frame_count + 1
  /\ procConvAfterStop' =
       IF running THEN procConvAfterStop ELSE Bump(procConvAfterStop)
  /\ \/ /\ ~ConversionRejects(encoding, frame_shape)
        /\ packaged' =
             [f \in DOMAIN packaged \cup {procFrame} |->
                IF f = procFrame THEN ProcessedData(encoding, frame_shape)
                                 ELSE packaged[f]]
        /\ pcProc' = "put"
        /\ UNCHANGED <<procFrame, discarded, log, raw_frame_queue>>
     \/ /\ pcProc' = "while"
        /\ IF QueueFull(raw_frame_queue)
             THEN /\ discarded' = discarded \cup {procFrame}
                  /\ UNCHANGED raw_frame_queue
             ELSE /\ raw_frame_queue' = QueuePut(raw_frame_queue, procFrame)
                  /\ UNCHANGED discarded
        /\ procFrame' = NoFrame
        /\ log' = log \cup {"processing_error"}
        /\ UNCHANGED packaged
  /\ UNCHANGED <<processed_frame_queue, aborted, capEnqAfterStop,
                 procEnqAfterStop>>
  /\ UNCHANGED <<capVars, pubVars, mainVars>>
  /\ UNCHANGED <<cfgVars, published_img>>
  /\ UNCHANGED otherVars

\* h, w = frame.shape[:2]; self.frame_count += 1; the colour conversion and
\* the packing of processed_data, after which the local holds the tuple.  A
\* conversion that raises (always, when cv2 rejects the shape) is caught by
\* `except Exception` inside the loop: an error line is written, the frame is
\* gone and the loop restarts.
processing_loop_convert ==
  /\ ~aborted
  /\ pcProc = "convert"
  /\ frame_count' = frame_count + 1
  /\ procConvAfterStop' =
       IF running THEN procConvAfterStop ELSE Bump(procConvAfterStop)
  /\ \/ /\ ~ConversionRejects(encoding, frame_shape)
        /\ packaged' =
             [f \in DOMAIN packaged \cup {procFrame} |->
                IF f = procFrame THEN ProcessedData(encoding, frame_shape)
                                 ELSE packaged[f]]
        /\ pcProc' = "put"
        /\ UNCHANGED <<procFrame, discarded, log>>
     \/ /\ pcProc' = "while"
        /\ discarded' = discarded \cup {procFrame}
        /\ procFrame' = NoFrame
        /\ log' = log \cup {"processing_error"}
        /\ UNCHANGED packaged
  /\ UNCHANGED <<raw_frame_queue, processed_frame_queue, aborted,
                 capEnqAfterStop, procEnqAfterStop>>
  /\ UNCHANGED <<capVars, pubVars, mainVars>>
  /\ UNCHANGED <<cfgVars, published_img>>
  /\ UNCHANGED otherVars

\* self.processed_frame_queue.put_nowait(processed_data)
processing_loop_put_nowait ==
  /\ ~aborted
  /\ pcProc = "put"
  /\ IF QueueFull(processed_frame_queue)
       THEN /\ pcProc' = "evict"
            /\ UNCHANGED <<processed_frame_queue, procFrame,
                           procEnqAfterStop>>
       ELSE /\ processed_frame_queue' = QueuePut(processed_frame_queue, procFrame)
            /\ procFrame' = NoFrame
            /\ pcProc' = "while"
            /\ procEnqAfterStop' =
                 IF running THEN procEnqAfterStop ELSE Bump(procEnqAfterStop)
  /\ UNCHANGED <<frame_count, raw_frame_queue, discarded, aborted,
                 capEnqAfterStop, procConvAfterStop>>
  /\ UNCHANGED <<capVars, pubVars, mainVars>>
  /\ UNCHANGED <<cfgVars, packaged, published_img, log>>
  /\ UNCHANGED otherVars

\* except queue.Full: self.processed_frame_queue.get_nowait(); queue.Empty
\* there ends the iteration (except queue.Empty: pass).
processing_loop_get_nowait ==
  /\ ~aborted
  /\ pcProc = "evict"
  /\ IF QueueEmpty(processed_frame_queue)
       THEN /\ discarded' = discarded \cup {procFrame}
            /\ procFrame' = NoFrame
            /\ pcProc' = "while"
            /\ UNCHANGED processed_frame_queue
       ELSE /\ discarded' = discarded \cup {QueueGet(processed_frame_queue).item}
            /\ processed_frame_queue' = QueueGet(processed_frame_queue).rest
            /\ pcProc' = "put_again"
            /\ UNCHANGED <<procFrame>>
  /\ UNCHANGED <<frame_count, raw_frame_queue, aborted>>
  /\ UNCHANGED <<capVars, pubVars, mainVars, stopCounters>>
  /\ UNCHANGED <<cfgVars, packaged, published_img, log>>
  /\ UNCHANGED otherVars

\* self.processed_frame_queue.put_nowait(processed_data) inside the handler;
\* a queue.Full raised here is caught by the loop's `except Exception`.
processing_loop_put_again ==
  /\ ~aborted
  /\ pcProc = "put_again"
  /\ IF QueueFull(processed_frame_queue)
       THEN /\ discarded' = discarded \cup {procFrame}
            /\ log' = log \cup {"processing_error"}
            /\ UNCHANGED <<processed_frame_queue, procEnqAfterStop>>
       ELSE /\ processed_frame_queue' = QueuePut(processed_frame_queue, procFrame)
            /\ procEnqAfterStop' =
                 IF running THEN procEnqAfterStop ELSE Bump(procEnqAfterStop)
            /\ UNCHANGED <<discarded, log>>
  /\ procFrame' = NoFrame
  /\ pcProc' = "while"
  /\ UNCHANGED <<frame_count, raw_frame_queue, aborted, capEnqAfterStop,
                 procConvAfterStop>>
  /\ UNCHANGED <<capVars, pubVars, mainVars>>
  /\ UNCHANGED <<cfgVars, packaged, published_img>>
  /\ UNCHANGED otherVars

processing_loop ==
  \/ processing_loop_while
  \/ processing_loop_get
  \/ processing_loop_convert
  \/ processing_loop_put_nowait
  \/ processing_loop_get_nowait
  \/ processing_loop_put_again

(***************************************************************************)
(* publish_frame, the callback of the timer created in __init__            *)
(***************************************************************************)
\* The executor inside rclpy.spin(node) calls the timer's callback.
timer_fire ==
  /\ ~aborted
  /\ pcMain = "spin"
  /\ pcPub = "idle"
  /\ pcPub' = "take"
  /\ tickTakes' = 0
  /\ tickPubs' = 0
  /\ UNCHANGED <<pubFrame, published, raw_frame_queue, processed_frame_queue,
                 discarded, aborted>>
  /\ UNCHANGED <<capVars, procVars, mainVars, stopCounters>>
  /\ UNCHANGED <<cfgVars, packaged, published_img, log>>
  /\ UNCHANGED otherVars

\* A blocking take (`self.processed_frame_queue.get()`): the callback waits
\* for a frame.
publish_frame_get_blocking ==
  /\ ~aborted
  /\ pcPub = "take"
  /\ ~QueueEmpty(processed_frame_queue)
  /\ tickTakes' = Bump(tickTakes)
  /\ pubFrame' = QueueGet(processed_frame_queue).item
  /\ processed_frame_queue' = QueueGet(processed_frame_queue).rest
  /\ pcPub' = "publish"
  /\ UNCHANGED <<published, tickPubs, raw_frame_queue, discarded, aborted>>
  /\ UNCHANGED <<capVars, procVars, mainVars, stopCounters>>
  /\ UNCHANGED <<cfgVars, packaged, published_img, log>>
  /\ UNCHANGED otherVars

\* data, h, w, encoding, step = self.processed_frame_queue.get_nowait();
\* `except queue.Empty: pass` ends the callback.
publish_frame_get_nowait ==
  /\ ~aborted
  /\ pcPub = "take"
  /\ tickTakes' = Bump(tickTakes)
  /\ IF QueueEmpty(processed_frame_queue)
       THEN /\ pcPub' = "idle"
            /\ UNCHANGED <<pubFrame, processed_frame_queue>>
       ELSE /\ pubFrame' = QueueGet(processed_frame_queue).item
            /\ processed_frame_queue' = QueueGet(processed_frame_queue).rest
            /\ pcPub' = "publish"
  /\ UNCHANGED <<published, tickPubs, raw_frame_queue, discarded, aborted>>
  /\ UNCHANGED <<capVars, procVars, mainVars, stopCounters>>
  /\ UNCHANGED <<cfgVars, packaged, published_img, log>>
  /\ UNCHANGED otherVars

\* A callback that goes on to take the next frame while there is one
\* (`while not self.processed_frame_queue.empty():` around the body).
publish_frame_publish_drain ==
  /\ ~aborted
  /\ pcPub = "publish"
  /\ \/ /\ published' = Append(published, pubFrame)
        /\ published_img' = Append(published_img, ImageMsg(packaged[pubFrame]))
        /\ tickPubs' = Bump(tickPubs)
        /\ UNCHANGED <<discarded, log>>
     \/ /\ discarded' = discarded \cup {pubFrame}
        /\ log' = log \cup {"publish_error"}
        /\ UNCHANGED <<published, published_img, tickPubs>>
  /\ pubFrame' = NoFrame
  /\ pcPub' = IF QueueEmpty(processed_frame_queue) THEN "idle" ELSE "take"
  /\ UNCHANGED <<tickTakes, raw_frame_queue, processed_frame_queue, aborted>>
  /\ UNCHANGED <<capVars, procVars, mainVars, stopCounters>>
  /\ UNCHANGED <<cfgVars, packaged>>
  /\ UNCHANGED otherVars

\* A callback whose failed publish puts the tuple back on
\* processed_frame_queue for a later tick.
publish_frame_publish_requeue ==
  /\ ~aborted
  /\ pcPub = "publish"
  /\ \/ /\ published' = Append(published, pubFrame)
        /\ published_img' = Append(published_img, ImageMsg(packaged[pubFrame]))
        /\ tickPubs' = Bump(tickPubs)
        /\ UNCHANGED <<discarded, log, processed_frame_queue>>
     \/ /\ IF QueueFull(processed_frame_queue)
             THEN /\ discarded' = discarded \cup {pubFrame}
                  /\ UNCHANGED processed_frame_queue
             ELSE /\ processed_frame_queue' =
                       QueuePut(processed_frame_queue, pubFrame)
                  /\ UNCHANGED discarded
        /\ log' = log \cup {"publish_error"}
        /\ UNCHANGED <<published, published_img, tickPubs>>
  /\ pubFrame' = NoFrame
  /\ pcPub' = "idle"
  /\ UNCHANGED <<tickTakes, raw_frame_queue, aborted>>
  /\ UNCHANGED <<capVars, procVars, mainVars, stopCounters>>
  /\ UNCHANGED <<cfgVars, packaged>>
  /\ UNCHANGED otherVars

\* img = Image(); ...; self.publisher.publish(img).  A failure while the
\* message is built or sent is caught by `except Exception`: the frame is gone.
publish_frame_publish ==
  /\ ~aborted
  /\ pcPub = "publish"
  /\ \/ /\ published' = Append(published, pubFrame)
        /\ published_img' = Append(published_img, ImageMsg(packaged[pubFrame]))
        /\ tickPubs' = Bump(tickPubs)
        /\ UNCHANGED <<discarded, log>>
     \/ /\ discarded' = discarded \cup {pubFrame}
        /\ log' = log \cup {"publish_error"}
        /\ UNCHANGED <<published, published_img, tickPubs>>
  /\ pubFrame' = NoFrame
  /\ pcPub' = "idle"
  /\ UNCHANGED <<tickTakes, raw_frame_queue, processed_frame_queue, aborted>>
  /\ UNCHANGED <<capVars, procVars, mainVars, stopCounters>>
  /\ UNCHANGED <<cfgVars, packaged>>
  /\ UNCHANGED otherVars

publish_frame ==
  \/ publish_frame_get_nowait
  \/ publish_frame_publish

(***************************************************************************)
(* main(): rclpy.spin, then the finally block with destroy_node            *)
(***************************************************************************)
\* rclpy.spin(node) ends (KeyboardInterrupt between two callbacks); control
\* passes to the finally block.  No callback runs after this.
main_spin_ends ==
  /\ ~aborted
  /\ pcMain = "spin"
  /\ pcPub = "idle"
  /\ pcMain' = "destroy_node"
  /\ UNCHANGED <<running, cap_released, raw_frame_queue, processed_frame_queue,
                 discarded, aborted>>
  /\ UNCHANGED <<capVars, procVars, pubVars, stopCounters>>
  /\ UNCHANGED <<cfgVars, packaged, published_img, log>>
  /\ UNCHANGED otherVars

\* destroy_node: self.running = False
destroy_node_stop ==
  /\ ~aborted
  /\ pcMain = "destroy_node"
  /\ running' = FALSE
  /\ pcMain' = "release"
  /\ UNCHANGED <<cap_released, raw_frame_queue, processed_frame_queue,
                 discarded, aborted>>
  /\ UNCHANGED <<capVars, procVars, pubVars, stopCounters>>
  /\ UNCHANGED <<cfgVars, packaged, published_img, log>>
  /\ UNCHANGED otherVars

\* destroy_node: if self.cap: self.cap.release().  A release that raises
\* is caught neither in destroy_node nor in main()'s finally block: the
\* exception leaves both, and super().destroy_node() and rclpy.shutdown()
\* are not reached.
destroy_node_release ==
  /\ ~aborted
  /\ pcMain = "release"
  /\ \/ /\ cap_released' = TRUE
        /\ pcMain' = "super"
     \/ /\ pcMain' = "raised"
        /\ UNCHANGED cap_released
  /\ UNCHANGED <<running, raw_frame_queue, processed_frame_queue, discarded,
                 aborted>>
  /\ UNCHANGED <<capVars, procVars, pubVars, stopCounters>>
  /\ UNCHANGED <<cfgVars, packaged, published_img, log>>
  /\ UNCHANGED otherVars

\* A destroy_node that ends with `self.running = True`, leaving the node
\* armed for another start.
destroy_node_super_rearm ==
  /\ ~aborted
  /\ pcMain = "super"
  /\ pcPub' = "destroyed"
  /\ pcMain' = "done"
  /\ running' = TRUE
  /\ UNCHANGED <<cap_released, pubFrame, published, tickTakes, tickPubs,
                 raw_frame_queue, processed_frame_queue, discarded, aborted>>
  /\ UNCHANGED <<capVars, procVars, stopCounters>>
  /\ UNCHANGED <<cfgVars, packaged, published_img, log>>
  /\ UNCHANGED otherVars

\* destroy_node: super().destroy_node() destroys the node's timer; main then
\* calls rclpy.shutdown().
destroy_node_super ==
  /\ ~aborted
  /\ pcMain = "super"
  /\ pcPub' = "destroyed"
  /\ pcMain' = "done"
  /\ UNCHANGED <<running, cap_released, pubFrame, published, tickTakes, tickPubs,
                 raw_frame_queue, processed_frame_queue, discarded, aborted>>
  /\ UNCHANGED <<capVars, procVars, stopCounters>>
  /\ UNCHANGED <<cfgVars, packaged, published_img, log>>
  /\ UNCHANGED otherVars

destroy_node ==
  \/ destroy_node_stop
  \/ destroy_node_release
  \/ destroy_node_super

Next ==
  \/ node_init
  \/ capture_loop
  \/ processing_loop
  \/ timer_fire
  \/ publish_frame
  \/ main_spin_ends
  \/ destroy_node

Spec == Init /\ [][Next]_vars

\* Each thread that can take a step eventually takes one: the two daemon
\* threads are scheduled by the interpreter, and main() runs destroy_node to
\* its end once it has entered the finally block.
FairSpec ==
  /\ Spec
  /\ WF_vars(capture_loop)
  /\ WF_vars(processing_loop)
  /\ WF_vars(destroy_node)

(***************************************************************************)
(* One relay queue on its own: capture_loop puts up to MaxPuts frames into *)
(* raw_frame_queue while processing_loop has not started to take; once it  *)
(* takes, the producer is at rest.                                         *)
(***************************************************************************)
RelayNoTakeYet == pcProc = "while" /\ frame_count = 0 /\ procFrame = NoFrame

relay_capture_loop ==
  /\ RelayNoTakeYet
  /\ \/ capture_loop_while
     \/ capture_loop_read_call
     \/ cap_read(MaxPuts)
     \/ capture_loop_sleep
     \/ capture_loop_put_nowait
     \/ capture_loop_get_nowait
     \/ capture_loop_put_again

relay_processing_loop ==
  /\ pcCap = "while"
  /\ \/ processing_loop_while
     \/ processing_loop_get
     \/ processing_loop_convert
     \/ processing_loop_put_nowait

NextRelay ==
  \/ node_init
  \/ relay_capture_loop
  \/ relay_processing_loop

SpecRelay == Init /\ [][NextRelay]_vars

(***************************************************************************)
(* Start-up and steady state of the pipeline under every --encoding value  *)
(* and frame shape in use, with a camera that delivers FormatFrames        *)
(* frames; rclpy.spin does not end in these runs.                          *)
(***************************************************************************)
InitFormat == \E arg \in EncodingArgs, shape \in FrameShapes : InitState(arg, shape)

format_capture_loop ==
  \/ capture_loop_while
  \/ capture_loop_read_call
  \/ cap_read(FormatFrames)
  \/ capture_loop_sleep
  \/ capture_loop_put_nowait
  \/ capture_loop_get_nowait
  \/ capture_loop_put_again

NextFormat ==
  \/ node_init
  \/ format_capture_loop
  \/ processing_loop
  \/ timer_fire
  \/ publish_frame

SpecFormat == InitFormat /\ [][NextFormat]_vars

(***************************************************************************)
(* UnifiedControlMessage.update_from_json, called once on an object in     *)
(* any prior state with any of the checked messages.                       *)
(***************************************************************************)
\* The states a UnifiedControlMessage can be in before the call.
PriorObjects ==
  {[rotation |-> a["rotation"], brake |-> a["brake"],
    throttle |-> a["throttle"], gear |-> g,
    boom |-> a["boom"], bucket |-> a["bucket"],
    left_track |-> a["left_track"], right_track |-> a["right_track"],
    swing |-> a["swing"], stick |-> a["stick"],
    device_type |-> "wheel_loader", timestamp |-> ConstructStamp] :
     a \in [AxisFields -> {0} \cup AxisValues], g \in {"N", "D"}}

InitMessage ==
  /\ PipelineState(DefaultEncoding, [h |-> DefaultHeight, w |-> DefaultWidth])
  /\ StreamIdle
  /\ TesterIdle
  /\ ucm \in PriorObjects
  /\ control_data = UnifiedControlMessage(ConstructStamp)
  /\ json_data \in Messages
  /\ ctl_result = "none"
  /\ NodeIdle

\* ucm.update_from_json(json_data)
ucm_update_from_json ==
  /\ ctl_result = "none"
  /\ ucm' = update_from_json(ucm, json_data).obj
  /\ ctl_result' = update_from_json(ucm, json_data).ret
  /\ UNCHANGED <<control_data, json_data, nodeVars>>
  /\ UNCHANGED <<pipelineVars, streamVars, testerVars>>

NextMessage == ucm_update_from_json

SpecMessage == InitMessage /\ [][NextMessage]_vars

(***************************************************************************)
(* client.py: LoadExcClient.control_callback, called for one control       *)
(* message after another.                                                  *)
(***************************************************************************)

\* control_callback(msg): a new UnifiedControlMessage is constructed and
\* updated from msg.data; when that returns True it replaces
\* self.control_data (info line), when it returns False a warning is
\* logged, and an exception is logged as an error.
control_callback(data) ==
  LET constructed == UnifiedControlMessage(ConstructStamp)
      r == update_from_json(constructed, data)
  IN /\ control_data' = IF r.ret = "True" THEN r.obj ELSE control_data
     /\ ctl_result' = CASE r.ret = "True"  -> "info"
                        [] r.ret = "False" -> "warn"
                        [] OTHER           -> "error"
     /\ json_data' = data
     /\ UNCHANGED <<ucm, nodeVars>>
     /\ UNCHANGED <<pipelineVars, streamVars, testerVars>>

NextClient == \E data \in Messages : control_callback(data)

SpecClient == Init /\ [][NextClient]_vars

(***************************************************************************)
(* client.py: LoadExcClient with its subscription callback and its publish *)
(* timer, one statement group at a time.                                   *)
(***************************************************************************)
\* The control messages the node receives.
NodeMessages ==
  {JsonMessage("object", {"type", "v", "t"}, "analog", "N", TRUE,
               [k \in {"rotation", "brake"} |-> 5], 1000),
   JsonMessage("object", {"type", "gear", "t"}, "gear", "D", TRUE, NoV, 2000),
   JsonMessage("object", {"type", "v", "t"}, "analog", "N", FALSE, NoV, 2000),
   JsonMessage("not_json", {}, "", "N", TRUE, NoV, 1000)}

\* The executor starts a callback only when no other one runs.
MayStart(other_pc) == executor = "single" => other_pc = "idle"

\* An identity no variable refers to.
FreeIds == ObjIds \ {control_ref, current_control, new_control}
NewId == CHOOSE n \in FreeIds : \A k \in FreeIds : n <= k

nodeFrame == <<ucm, pipelineVars, streamVars, testerVars, executor>>

\* A callback that parses into the object control_data refers to.
cb_begin_in_place(data) ==
  /\ pcCallback = "idle"
  /\ MayStart(pcTick)
  /\ new_control' = control_ref
  /\ json_data' = data
  /\ pcCallback' = "loads"
  /\ UNCHANGED <<objects, control_data, ctl_result, control_ref,
                 current_control, current_time, pcTick, control_lock, time_ms,
                 rendered, nodeFrame>>

\* control_callback: new_control = UnifiedControlMessage()
cb_begin(data) ==
  /\ pcCallback = "idle"
  /\ MayStart(pcTick)
  /\ new_control' = NewId
  /\ objects' = [objects EXCEPT ![NewId] = UnifiedControlMessage(ConstructStamp)]
  /\ json_data' = data
  /\ pcCallback' = "loads"
  /\ UNCHANGED <<control_data, ctl_result, control_ref, current_control,
                 current_time, pcTick, control_lock, time_ms, rendered,
                 nodeFrame>>

\* update_from_json on new_control: json.loads and the assignment of the
\* timestamp.  Text that is not a JSON object makes it return False, and
\* control_callback logs the warning.
cb_json_loads ==
  /\ pcCallback = "loads"
  /\ IF json_data.kind # "object"
       THEN /\ ctl_result' = "warn"
            /\ pcCallback' = "idle"
            /\ new_control' = NoRef
            /\ UNCHANGED objects
       ELSE /\ objects' =
                 [objects EXCEPT ![new_control].timestamp =
                    IF "t" \in json_data.keys THEN json_data.t ELSE @]
            /\ pcCallback' = "assign"
            /\ UNCHANGED <<ctl_result, new_control>>
  /\ control_data' = objects'[control_ref]
  /\ UNCHANGED <<json_data, control_ref, current_control, current_time, pcTick,
                 control_lock, time_ms, rendered, nodeFrame>>

\* A callback without the `except Exception` clause.
cb_assign_fields_uncaught ==
  /\ pcCallback = "assign"
  /\ LET r == update_from_json(objects[new_control], json_data)
     IN /\ objects' = [objects EXCEPT ![new_control] = r.obj]
        /\ CASE r.ret = "True" ->
                  /\ pcCallback' = "lock"
                  /\ UNCHANGED <<ctl_result, new_control>>
             [] r.ret = "False" ->
                  /\ ctl_result' = "warn"
                  /\ pcCallback' = "idle"
                  /\ new_control' = NoRef
             [] OTHER ->
                  /\ ctl_result' = "raised"
                  /\ pcCallback' = "raised"
                  /\ new_control' = NoRef
  /\ control_data' = objects'[control_ref]
  /\ UNCHANGED <<json_data, control_ref, current_control, current_time, pcTick,
                 control_lock, time_ms, rendered, nodeFrame>>

\* update_from_json on new_control: the assignments of the gear or analog
\* branch.  True sends control_callback to the lock; False is logged as a
\* warning; an exception is logged as an error by `except Exception`.
cb_assign_fields ==
  /\ pcCallback = "assign"
  /\ LET r == update_from_json(objects[new_control], json_data)
     IN /\ objects' = [objects EXCEPT ![new_control] = r.obj]
        /\ CASE r.ret = "True" ->
                  /\ pcCallback' = "lock"
                  /\ UNCHANGED <<ctl_result, new_control>>
             [] r.ret = "False" ->
                  /\ ctl_result' = "warn"
                  /\ pcCallback' = "idle"
                  /\ new_control' = NoRef
             [] OTHER ->
                  /\ ctl_result' = "error"
                  /\ pcCallback' = "idle"
                  /\ new_control' = NoRef
  /\ control_data' = objects'[control_ref]
  /\ UNCHANGED <<json_data, control_ref, current_control, current_time, pcTick,
                 control_lock, time_ms, rendered, nodeFrame>>

\* with self.control_lock: entered.
cb_acquire ==
  /\ pcCallback = "lock"
  /\ control_lock = "free"
  /\ control_lock' = "callback"
  /\ pcCallback' = "install"
  /\ UNCHANGED <<objects, control_data, json_data, ctl_result, control_ref,
                 new_control, current_control, current_time, pcTick, time_ms,
                 rendered, nodeFrame>>

\* self.control_data = new_control; the lock is left and the message is
\* logged.
cb_install ==
  /\ pcCallback = "install"
  /\ control_ref' = new_control
  /\ control_data' = objects[new_control]
  /\ control_lock' = "free"
  /\ ctl_result' = "info"
  /\ new_control' = NoRef
  /\ pcCallback' = "idle"
  /\ UNCHANGED <<objects, json_data, current_control, current_time, pcTick,
                 time_ms, rendered, nodeFrame>>

\* Later values of the clock.
Later == {t \in Clock : t > time_ms}

\* publish_video_frame: with self.control_lock: entered.
tick_acquire ==
  /\ pcTick = "idle"
  /\ MayStart(pcCallback)
  /\ Later # {}
  /\ control_lock = "free"
  /\ control_lock' = "tick"
  /\ pcTick' = "read"
  /\ UNCHANGED <<objects, control_data, json_data, ctl_result, control_ref,
                 new_control, current_control, current_time, pcCallback,
                 time_ms, rendered, nodeFrame>>

\* current_control = self.control_data; the lock is left.
tick_read ==
  /\ pcTick = "read"
  /\ current_control' = control_ref
  /\ control_lock' = "free"
  /\ pcTick' = "stamp"
  /\ UNCHANGED <<objects, control_data, json_data, ctl_result, control_ref,
                 new_control, current_time, pcCallback, time_ms, rendered,
                 nodeFrame>>

\* A tick that keeps its clock value to itself.
tick_stamp_local ==
  /\ pcTick = "stamp"
  /\ \E t \in Later :
       /\ time_ms' = t
       /\ current_time' = t
  /\ pcTick' = "render"
  /\ UNCHANGED <<objects, control_data, json_data, ctl_result, control_ref,
                 new_control, current_control, pcCallback, control_lock,
                 rendered, nodeFrame>>

\* current_time = int(time.time() * 1000);
\* current_control.timestamp = current_time
tick_stamp ==
  /\ pcTick = "stamp"
  /\ \E t \in Later :
       /\ time_ms' = t
       /\ current_time' = t
       /\ objects' = [objects EXCEPT ![current_control].timestamp = t]
  /\ control_data' = objects'[control_ref]
  /\ pcTick' = "render"
  /\ UNCHANGED <<json_data, ctl_result, control_ref, new_control,
                 current_control, pcCallback, control_lock, rendered,
                 nodeFrame>>

\* VideoRenderer.render_frame_for_streaming: what the frame shows.
render_frame_for_streaming(control, now_ms) ==
  [control |-> control, now_ms |-> now_ms,
   latency_ms |-> now_ms - control.timestamp]

\* frame = self.renderer.render_frame_for_streaming(current_control), then
\* the frame is converted and published.
tick_render ==
  /\ pcTick = "render"
  /\ \E t \in {time_ms} \cup Later :
       /\ time_ms' = t
       /\ rendered' = render_frame_for_streaming(objects[current_control], t)
  /\ current_control' = NoRef
  /\ pcTick' = "idle"
  /\ UNCHANGED <<objects, control_data, json_data, ctl_result, control_ref,
                 new_control, current_time, pcCallback, control_lock,
                 nodeFrame>>

\* get_control_status: self.control_data.to_dict() under the lock.
get_control_status == objects[control_ref]

NextNode ==
  \/ \E data \in NodeMessages : cb_begin(data)
  \/ cb_json_loads
  \/ cb_assign_fields
  \/ cb_acquire
  \/ cb_install
  \/ tick_acquire
  \/ tick_read
  \/ tick_stamp
  \/ tick_render

\* rclpy.spin(client): callback and timer run one after the other.
SpecNode == Init /\ [][NextNode]_vars

\* Callback and timer started whenever they are due, in any interleaving.
InitThreads ==
  /\ PipelineState(DefaultEncoding, [h |-> DefaultHeight, w |-> DefaultWidth])
  /\ StreamIdle
  /\ TesterIdle
  /\ ucm = UnifiedControlMessage(ConstructStamp)
  /\ control_data = UnifiedControlMessage(ConstructStamp)
  /\ json_data = JsonMessage("not_json", {}, "", "N", TRUE, NoV, 1000)
  /\ ctl_result = "none"
  /\ NodeState("multi")
SpecThreads == InitThreads /\ [][NextNode]_vars

(***************************************************************************)
(* livekit-h264-client: test_camera_fixed.py and test_camera_i420.py.      *)
(* A step of main() runs from one await to the next.                       *)
(***************************************************************************)
Scripts == {"test_camera_fixed", "test_camera_i420"}
\* Frame shapes the capture device delivers, whatever cap.set asked for.
DeliveredShapes == {[h |-> HEIGHT, w |-> WIDTH], [h |-> 480, w |-> 640]}

\* rtc.VideoFrame(width, height, type, data), data kept by its length.
VideoFrame(width, height, type, data_len) ==
  [width |-> width, height |-> height, type |-> type, data_len |-> data_len]

\* CameraCapture.read_frame: cv2.resize(frame, (WIDTH, HEIGHT)), then
\* BGR2RGBA; the length of frame_rgba.tobytes().
FixedFrameBytes(shape) == HEIGHT * WIDTH * 4
\* I420CameraCapture.read_frame: BGR2YUV_I420 of the frame as delivered;
\* the length of yuv.tobytes().
I420FrameBytes(shape) == ((shape.h * 3) \div 2) * shape.w

InitStream ==
  /\ PipelineState(DefaultEncoding, [h |-> DefaultHeight, w |-> DefaultWidth])
  /\ ControlInit
  /\ TesterIdle
  /\ script \in Scripts
  /\ response \in Responses
  /\ delivered \in DeliveredShapes
  /\ token = NoValue
  /\ pcScript = "unstarted"
  /\ connect_token = NoValue
  /\ camera_state = "none"
  /\ room_state = "none"
  /\ loop_state = "none"
  /\ video_frames = {}
  /\ stream_log = {}

streamFrame == <<pipelineVars, ctlVars, testerVars, script, response, delivered>>

\* __main__: asyncio.ensure_future(main()); loop.run_forever() /
\* asyncio.run(main()).
script_start ==
  /\ pcScript = "unstarted"
  /\ pcScript' = "get_token"
  /\ loop_state' = "running"
  /\ UNCHANGED <<token, connect_token, camera_state, room_state, video_frames,
                 stream_log, streamFrame>>

\* test_camera_fixed main: token = get_livekit_token(); if not token: log
\* the error and return (through the finally block).
fixed_main_get_token ==
  /\ script = "test_camera_fixed"
  /\ loop_state = "running"
  /\ pcScript = "get_token"
  /\ token' = get_livekit_token(response)
  /\ IF token'.kind = "raised"
       THEN /\ stream_log' = stream_log \cup {"run_error"}
            /\ pcScript' = "finally"
       ELSE IF ~Truthy(token')
         THEN /\ stream_log' = stream_log \cup {"token_error"}
              /\ pcScript' = "finally"
         ELSE /\ pcScript' = "connect"
              /\ UNCHANGED stream_log
  /\ UNCHANGED <<connect_token, camera_state, room_state, loop_state,
                 video_frames, streamFrame>>

\* room = rtc.Room(); await room.connect(livekit_url, token): the call.
fixed_main_connect ==
  /\ script = "test_camera_fixed"
  /\ loop_state = "running"
  /\ pcScript = "connect"
  /\ room_state' = "created"
  /\ connect_token' = token
  /\ pcScript' = "connecting"
  /\ UNCHANGED <<token, camera_state, loop_state, video_frames, stream_log,
                 streamFrame>>

\* room.connect returns or raises, then publish_track returns or raises; an
\* exception is logged by `except Exception` and main goes to finally.
fixed_main_connecting ==
  /\ script = "test_camera_fixed"
  /\ loop_state = "running"
  /\ pcScript = "connecting"
  /\ \/ /\ connect_token.kind = "str"
        /\ room_state' = "connected"
        /\ pcScript' = "camera_start"
        /\ UNCHANGED stream_log
     \/ /\ connect_token.kind = "str"
        /\ room_state' = "connected"
        /\ pcScript' = "finally"
        /\ stream_log' = stream_log \cup {"run_error"}
     \/ /\ pcScript' = "finally"
        /\ stream_log' = stream_log \cup {"run_error"}
        /\ UNCHANGED room_state
  /\ UNCHANGED <<token, connect_token, camera_state, loop_state, video_frames,
                 streamFrame>>

\* camera = CameraCapture(device); camera.start()
fixed_main_camera_start ==
  /\ script = "test_camera_fixed"
  /\ loop_state = "running"
  /\ pcScript = "camera_start"
  /\ \/ /\ camera_state' = "started"
        /\ pcScript' = "stream_read"
        /\ UNCHANGED stream_log
     \/ /\ camera_state' = "unopened"
        /\ pcScript' = "finally"
        /\ stream_log' = stream_log \cup {"run_error"}
  /\ UNCHANGED <<token, connect_token, room_state, loop_state, video_frames,
                 streamFrame>>

\* camera_stream_loop: one iteration up to the await: a frame is read,
\* resized, converted and given to source.capture_frame; or no frame is
\* read (warning); or an exception is logged.
camera_stream_loop_read ==
  /\ script = "test_camera_fixed"
  /\ loop_state = "running"
  /\ pcScript = "stream_read"
  /\ \/ /\ video_frames' = video_frames \cup
             {VideoFrame(WIDTH, HEIGHT, "RGBA", FixedFrameBytes(delivered))}
        /\ UNCHANGED stream_log
     \/ /\ stream_log' = stream_log \cup {"read_warning"}
        /\ UNCHANGED video_frames
     \/ /\ stream_log' = stream_log \cup {"frame_error"}
        /\ UNCHANGED video_frames
  /\ pcScript' = "stream_sleep"
  /\ UNCHANGED <<token, connect_token, camera_state, room_state, loop_state,
                 streamFrame>>

\* await asyncio.sleep(max(0, next_frame_time - perf_counter()))
camera_stream_loop_sleep ==
  /\ script = "test_camera_fixed"
  /\ loop_state = "running"
  /\ pcScript = "stream_sleep"
  /\ pcScript' = "stream_read"
  /\ UNCHANGED <<token, connect_token, camera_state, room_state, loop_state,
                 video_frames, stream_log, streamFrame>>

\* finally: camera.stop() when main got as far as creating the camera,
\* inside try/except: pass.
fixed_main_finally_camera ==
  /\ script = "test_camera_fixed"
  /\ loop_state = "running"
  /\ pcScript = "finally"
  /\ IF camera_state = "none"
       THEN UNCHANGED camera_state
       ELSE \/ camera_state' = "stopped"
            \/ UNCHANGED camera_state
  /\ pcScript' = "finally_room"
  /\ UNCHANGED <<token, connect_token, room_state, loop_state, video_frames,
                 stream_log, streamFrame>>

\* finally: await room.disconnect() when main got as far as creating the
\* room, inside try/except: pass; then the closing log line.
fixed_main_finally_room ==
  /\ script = "test_camera_fixed"
  /\ loop_state = "running"
  /\ pcScript = "finally_room"
  /\ IF room_state = "none"
       THEN UNCHANGED room_state
       ELSE \/ room_state' = "disconnected"
            \/ UNCHANGED room_state
  /\ stream_log' = stream_log \cup {"disconnected"}
  /\ pcScript' = "done"
  /\ UNCHANGED <<token, connect_token, camera_state, loop_state, video_frames,
                 streamFrame>>

\* SIGINT or SIGTERM: the handler schedules cleanup(), which logs and calls
\* loop.stop().  It runs between two steps of main(), that is while main()
\* waits in an await or is over.
fixed_signal ==
  /\ script = "test_camera_fixed"
  /\ loop_state = "running"
  /\ pcScript \in {"get_token", "connecting", "stream_sleep", "done"}
  /\ loop_state' = "stopped"
  /\ stream_log' = stream_log \cup {"cleanup"}
  /\ UNCHANGED <<token, pcScript, connect_token, camera_state, room_state,
                 video_frames, streamFrame>>

\* run_forever returns; finally: loop.close().  The task of main() is not
\* cancelled and is not run again.
fixed_loop_close ==
  /\ script = "test_camera_fixed"
  /\ loop_state = "stopped"
  /\ loop_state' = "closed"
  /\ UNCHANGED <<token, pcScript, connect_token, camera_state, room_state,
                 video_frames, stream_log, streamFrame>>

\* The interpreter may finalise the pending coroutine of main() on exit:
\* GeneratorExit at its await runs the finally block, where camera.stop()
\* is an ordinary call and `await room.disconnect()` cannot complete on the
\* closed loop.
fixed_task_destroyed ==
  /\ script = "test_camera_fixed"
  /\ loop_state = "closed"
  /\ pcScript \in {"connecting", "stream_sleep"}
  /\ camera_state' = IF camera_state = "none" THEN "none" ELSE "stopped"
  /\ pcScript' = "destroyed"
  /\ UNCHANGED <<token, connect_token, room_state, loop_state, video_frames,
                 stream_log, streamFrame>>

test_camera_fixed ==
  \/ fixed_main_get_token
  \/ fixed_main_connect
  \/ fixed_main_connecting
  \/ fixed_main_camera_start
  \/ camera_stream_loop_read
  \/ camera_stream_loop_sleep
  \/ fixed_main_finally_camera
  \/ fixed_main_finally_room
  \/ fixed_signal
  \/ fixed_loop_close
  \/ fixed_task_destroyed

\* test_camera_i420 main: try: token = get_livekit_token(); log success;
\* except Exception: log the failure and return.  The returned value is
\* not looked at.
i420_main_get_token ==
  /\ script = "test_camera_i420"
  /\ loop_state = "running"
  /\ pcScript = "get_token"
  /\ token' = get_livekit_token(response)
  /\ IF token'.kind = "raised"
       THEN /\ stream_log' = stream_log \cup {"token_error"}
            /\ pcScript' = "done"
            /\ loop_state' = "closed"
       ELSE /\ stream_log' = stream_log \cup {"token_ok"}
            /\ pcScript' = "connect"
            /\ UNCHANGED loop_state
  /\ UNCHANGED <<connect_token, camera_state, room_state, video_frames,
                 streamFrame>>

\* room = rtc.Room(); await room.connect(livekit_url, token): the call.
i420_main_connect ==
  /\ script = "test_camera_i420"
  /\ loop_state = "running"
  /\ pcScript = "connect"
  /\ room_state' = "created"
  /\ connect_token' = token
  /\ pcScript' = "connecting"
  /\ UNCHANGED <<token, camera_state, loop_state, video_frames, stream_log,
                 streamFrame>>

\* room.connect, publish_track and the one-second sleep: outside any try,
\* so an exception leaves main() and asyncio.run closes the loop.
i420_main_connecting ==
  /\ script = "test_camera_i420"
  /\ loop_state = "running"
  /\ pcScript = "connecting"
  /\ \/ /\ connect_token.kind = "str"
        /\ room_state' = "connected"
        /\ pcScript' = "camera_start"
        /\ UNCHANGED loop_state
     \/ /\ connect_token.kind = "str"
        /\ room_state' = "connected"
        /\ pcScript' = "crashed"
        /\ loop_state' = "closed"
     \/ /\ pcScript' = "crashed"
        /\ loop_state' = "closed"
        /\ UNCHANGED room_state
  /\ UNCHANGED <<token, connect_token, camera_state, video_frames, stream_log,
                 streamFrame>>

\* camera = I420CameraCapture(camera_device); camera.start(), outside any
\* try.
i420_main_camera_start ==
  /\ script = "test_camera_i420"
  /\ loop_state = "running"
  /\ pcScript = "camera_start"
  /\ \/ /\ camera_state' = "started"
        /\ pcScript' = "stream_read"
        /\ UNCHANGED loop_state
     \/ /\ camera_state' = "unopened"
        /\ pcScript' = "crashed"
        /\ loop_state' = "closed"
  /\ UNCHANGED <<token, connect_token, room_state, video_frames, stream_log,
                 streamFrame>>

\* One iteration of the while loop: read_frame in the executor; a frame is
\* wrapped as VideoFrame(WIDTH, HEIGHT, I420, bytes) and given to
\* video_source.capture_frame, which returns or raises; no frame is a
\* warning; an exception is logged and ends the loop.
i420_main_read ==
  /\ script = "test_camera_i420"
  /\ loop_state = "running"
  /\ pcScript = "stream_read"
  /\ \/ /\ video_frames' = video_frames \cup
             {VideoFrame(WIDTH, HEIGHT, "I420", I420FrameBytes(delivered))}
        /\ \/ /\ pcScript' = "stream_sleep"
              /\ UNCHANGED stream_log
           \/ /\ pcScript' = "finally"
              /\ stream_log' = stream_log \cup {"stream_error"}
     \/ /\ stream_log' = stream_log \cup {"read_warning"}
        /\ pcScript' = "stream_sleep"
        /\ UNCHANGED video_frames
     \/ /\ stream_log' = stream_log \cup {"stream_error"}
        /\ pcScript' = "finally"
        /\ UNCHANGED video_frames
  /\ UNCHANGED <<token, connect_token, camera_state, room_state, loop_state,
                 streamFrame>>

\* if sleep_time > 0: await asyncio.sleep(sleep_time)
i420_main_sleep ==
  /\ script = "test_camera_i420"
  /\ loop_state = "running"
  /\ pcScript = "stream_sleep"
  /\ pcScript' = "stream_read"
  /\ UNCHANGED <<token, connect_token, camera_state, room_state, loop_state,
                 video_frames, stream_log, streamFrame>>

\* finally: camera.stop(), unguarded.
i420_main_finally_stop ==
  /\ script = "test_camera_i420"
  /\ loop_state = "running"
  /\ pcScript = "finally"
  /\ \/ /\ camera_state' = "stopped"
        /\ pcScript' = "finally_room"
        /\ UNCHANGED loop_state
     \/ /\ pcScript' = "crashed"
        /\ loop_state' = "closed"
        /\ UNCHANGED camera_state
  /\ UNCHANGED <<token, connect_token, room_state, video_frames, stream_log,
                 streamFrame>>

\* finally: await room.disconnect(), unguarded, then the closing log line;
\* main() is over and asyncio.run closes the loop.
i420_main_finally_disconnect ==
  /\ script = "test_camera_i420"
  /\ loop_state = "running"
  /\ pcScript = "finally_room"
  /\ \/ /\ room_state' = "disconnected"
        /\ stream_log' = stream_log \cup {"disconnected"}
        /\ pcScript' = "done"
     \/ /\ pcScript' = "crashed"
        /\ UNCHANGED <<room_state, stream_log>>
  /\ loop_state' = "closed"
  /\ UNCHANGED <<token, connect_token, camera_state, video_frames,
                 streamFrame>>

test_camera_i420 ==
  \/ i420_main_get_token
  \/ i420_main_connect
  \/ i420_main_connecting
  \/ i420_main_camera_start
  \/ i420_main_read
  \/ i420_main_sleep
  \/ i420_main_finally_stop
  \/ i420_main_finally_disconnect

NextStream ==
  \/ script_start
  \/ test_camera_fixed
  \/ test_camera_i420

SpecStream == InitStream /\ [][NextStream]_vars
\* The event loop runs main() whenever main() can take a step, and
\* __main__ goes on after run_forever returns; no signal has to arrive.
FairSpecStream ==
  /\ SpecStream
  /\ WF_vars(script_start)
  /\ WF_vars(fixed_main_get_token)
  /\ WF_vars(fixed_main_connect)
  /\ WF_vars(fixed_main_connecting)
  /\ WF_vars(fixed_main_camera_start)
  /\ WF_vars(camera_stream_loop_read)
  /\ WF_vars(camera_stream_loop_sleep)
  /\ WF_vars(fixed_main_finally_camera)
  /\ WF_vars(fixed_main_finally_room)
  /\ WF_vars(fixed_loop_close)
  /\ WF_vars(test_camera_i420)

(***************************************************************************)
(* test_ros2_connection.py: the connection tester.                         *)
(***************************************************************************)
\* args=(30,): the duration of the test in seconds.
Duration == 30
\* Video frames counted by the tester.
MaxVideo == 2

testerFrame == <<pipelineVars, ctlVars, streamVars>>

\* main: rclpy.init(), the node, the daemon thread of run_test, then
\* rclpy.spin(tester); or the constructor raises and main goes through
\* `except Exception` and finally.
tester_main_start ==
  /\ pcTester = "unstarted"
  /\ \/ /\ pcTester' = "spinning"
        /\ pcRunTest' = "loop"
     \/ /\ pcTester' = "exited"
        /\ UNCHANGED pcRunTest
  /\ UNCHANGED <<elapsed, control_count, video_count, testerFrame>>

\* send_test_control_message after its increment of control_count.
send_test_control_message(count) == count + 1

\* run_test: one iteration of the while loop: an analog message, a sleep of
\* one second, and a gear message when the whole seconds since the start
\* are a multiple of five.  The thread is a daemon: it runs while main does.
run_test_iteration ==
  /\ pcTester = "spinning"
  /\ pcRunTest = "loop"
  /\ elapsed < Duration
  /\ elapsed' = elapsed + 1
  /\ control_count' =
       IF elapsed' % 5 = 0
         THEN send_test_control_message(send_test_control_message(control_count))
         ELSE send_test_control_message(control_count)
  /\ UNCHANGED <<pcTester, pcRunTest, video_count, testerFrame>>

\* run_test: the duration is over; the completion line is logged and the
\* thread ends.
run_test_complete ==
  /\ pcTester = "spinning"
  /\ pcRunTest = "loop"
  /\ ~(elapsed < Duration)
  /\ pcRunTest' = "done"
  /\ UNCHANGED <<pcTester, elapsed, control_count, video_count, testerFrame>>

\* video_callback, called by rclpy.spin for a frame on /camera_front_wide.
video_callback ==
  /\ pcTester = "spinning"
  /\ video_count < MaxVideo
  /\ video_count' = video_count + 1
  /\ UNCHANGED <<pcTester, pcRunTest, elapsed, control_count, testerFrame>>

\* The user's Ctrl+C: KeyboardInterrupt out of rclpy.spin, then finally:
\* rclpy.shutdown() and main returns.
tester_interrupt ==
  /\ pcTester = "spinning"
  /\ pcTester' = "exited"
  /\ UNCHANGED <<pcRunTest, elapsed, control_count, video_count, testerFrame>>

NextTester ==
  \/ tester_main_start
  \/ run_test_iteration
  \/ run_test_complete
  \/ video_callback
  \/ tester_interrupt

SpecTester == Init /\ [][NextTester]_vars
\* The test thread keeps running while the process lives; nobody is
\* obliged to press Ctrl+C and no frame has to arrive.
FairSpecTester ==
  /\ SpecTester
  /\ WF_vars(tester_main_start)
  /\ WF_vars(run_test_iteration)
  /\ WF_vars(run_test_complete)

(***************************************************************************)
(* Properties                                                              *)
(***************************************************************************)
\* Frames captured so far.
Captured == 1 .. (nextFrame - 1)
\* Positions of q that hold frame f.
Occurrences(q, f) == {i \in DOMAIN q : q[i] = f}
\* A sequence of frames in strictly increasing capture order.
Increasing(q) == \A i, j \in DOMAIN q : i < j => q[i] < q[j]
\* The positions of a stage inside its drop-oldest put sequence.
InPutSequence(pc) == pc \in {"put", "evict", "put_again"}
\* The last item of a non-empty queue is f.
NewestIs(q, f) == Len(q) > 0 /\ q[Len(q)] = f

\* C1: whenever the drop-oldest put sequence of capture_loop (on
\* raw_frame_queue) or of processing_loop (on processed_frame_queue)
\* finishes, the new item is in the queue, as its newest item: the new item
\* is never the one that is discarded.
C1_PutAlwaysInserts ==
  [][ /\ (InPutSequence(pcCap) /\ ~InPutSequence(pcCap'))
           => NewestIs(raw_frame_queue', capFrame)
      /\ (InPutSequence(pcProc) /\ ~InPutSequence(pcProc'))
           => NewestIs(processed_frame_queue', procFrame) ]_vars

\* C2: with no take interleaved, after n > 2 drop-oldest puts the
\* capacity-2 queue holds exactly the last two items put, in put order; the
\* following take returns item n-1 and a second take item n; no take returns
\* an item older than capacity-many puts ago.
C2_RelayKeepsLastTwo ==
  LET n == nextFrame - 1 IN
  /\ (RelayNoTakeYet /\ pcCap = "while" /\ n > maxsize)
       => raw_frame_queue = <<n - 1, n>>
  /\ (n > maxsize /\ pcProc = "convert" /\ frame_count = 0) => procFrame = n - 1
  /\ (n > maxsize /\ pcProc = "convert" /\ frame_count = 1) => procFrame = n
  /\ procFrame # NoFrame => procFrame + maxsize > n

\* C2 witness: ten frames were put, and the first take returned the ninth.
C2_Witness ==
  /\ nextFrame - 1 = 10
  /\ pcProc = "convert"
  /\ frame_count = 0
  /\ procFrame = 9
  /\ raw_frame_queue = <<10>>

\* C3: raw_frame_queue and processed_frame_queue each hold at most 2 items
\* in every reachable state.
C3_QueuesBounded ==
  /\ Len(raw_frame_queue) <= maxsize
  /\ Len(processed_frame_queue) <= maxsize

\* C3 witness: the capture thread found raw_frame_queue at capacity, evicted
\* the oldest frame and is about to insert its own, while a packaged frame
\* waits in processed_frame_queue.
C3_Witness ==
  /\ pcCap = "put_again"
  /\ Len(raw_frame_queue) = maxsize - 1
  /\ Len(processed_frame_queue) >= 1

\* C4: every captured frame is in at most one place (a stage's local
\* variable, a queue, the published records, the discarded frames), and is
\* published at most once.
C4_NoDuplicateFrame ==
  \A f \in Captured :
    /\ Cardinality(Occurrences(raw_frame_queue, f))
         + Cardinality(Occurrences(processed_frame_queue, f))
         + Cardinality(Occurrences(published, f))
         + Cardinality(Occurrences(<<capFrame, procFrame, pubFrame>>, f))
         + (IF f \in discarded THEN 1 ELSE 0) <= 1
    /\ Cardinality(Occurrences(published, f)) <= 1

\* C4 witness: frames are spread over the queues, a stage, the published
\* records and the discarded frames at once.
C4_Witness ==
  /\ Len(published) >= 1
  /\ discarded # {}
  /\ procFrame # NoFrame
  /\ Len(raw_frame_queue) >= 1

\* C5: each relay queue holds its frames oldest first and the published
\* frames are in strictly increasing capture order.
C5_PublishedInCaptureOrder ==
  /\ Increasing(raw_frame_queue)
  /\ Increasing(processed_frame_queue)
  /\ Increasing(published)

\* C5 witness: two frames were published with an evicted frame between them.
C5_Witness ==
  /\ Len(published) >= 2
  /\ \E f \in discarded : published[1] < f /\ f < published[2]

\* C6: a timer tick that ends has made exactly one take on
\* processed_frame_queue and handed at most one frame to the publisher.
C6_OneTakePerTick ==
  [][ (pcPub \in {"take", "publish"} /\ pcPub' = "idle")
        => (tickTakes' = 1 /\ tickPubs' <= 1) ]_vars

\* C6 witness: a tick ended having published one frame while another
\* packaged frame stayed queued.
C6_Witness ==
  /\ pcPub = "idle"
  /\ tickTakes = 1
  /\ tickPubs = 1
  /\ Len(processed_frame_queue) >= 1

\* C7: a tick that finds processed_frame_queue empty does not wait (its take
\* can always be made) and ends at once, leaving both queues, the lifecycle
\* flag, the frame counter and the published records as they were.
C7_EmptyTickIsNoOp ==
  /\ [][ (pcPub = "take" /\ QueueEmpty(processed_frame_queue) /\ pcPub' # "take")
           => /\ pcPub' = "idle"
              /\ UNCHANGED <<raw_frame_queue, processed_frame_queue, running,
                             frame_count, published, pubFrame, discarded>> ]_vars
  /\ []((pcPub = "take" /\ ~aborted) => ENABLED publish_frame_get_nowait)

\* C7 witness: frames have been captured, a tick has ended, and nothing was
\* published or dropped: the tick found the queue empty.
C7_Witness ==
  /\ pcPub = "idle"
  /\ tickTakes = 1
  /\ tickPubs = 0
  /\ published = <<>>
  /\ discarded = {}
  /\ nextFrame > 1

\* C8 as stated: once running is False, capture_loop enqueues no frame and
\* processing_loop converts and enqueues no frame.
C8_NothingAfterStop ==
  /\ capEnqAfterStop = 0
  /\ procConvAfterStop = 0
  /\ procEnqAfterStop = 0

\* C8 amended: once running is False, each stage finishes at most the
\* iteration it is in: capture_loop enqueues at most one more frame,
\* processing_loop converts at most one more frame and enqueues at most one,
\* and a stage that has left its loop holds no frame.
C8_AtMostOneAfterStop ==
  /\ capEnqAfterStop <= 1
  /\ procConvAfterStop <= 1
  /\ procEnqAfterStop <= 1
  /\ pcCap = "done" => (~running /\ capFrame = NoFrame)
  /\ pcProc = "done" => (~running /\ procFrame = NoFrame)

\* C8 witness: both stages have left their loops, each after handling one
\* more frame than the flag allowed for.
C8_Witness ==
  /\ pcCap = "done"
  /\ pcProc = "done"
  /\ capEnqAfterStop = 1
  /\ procConvAfterStop = 1
  /\ procEnqAfterStop = 1

\* C9: the capture thread never calls cap.read() on a handle that
\* destroy_node has already released.
C9_NoReadOnReleasedHandle == ~(pcCap = "reading" /\ readOnReleased)

\* destroy_node has set the lifecycle flag to stopped.
Stopping == "running" \in attrs /\ ~running

\* All three stages have stopped (or the process is gone): each loop has
\* been left, and the timer is destroyed or main() has ended without
\* reaching super().destroy_node(), rclpy.spin being over.
Stopped ==
  \/ aborted
  \/ /\ pcCap \in {"done", "raised"}
     /\ pcProc = "done"
     /\ pcPub = "destroyed" \/ pcMain = "raised"

\* C10: once the flag is set to stopped, the capture loop, the processing
\* loop and the publish timer all eventually stop, and from then on no
\* stage ends by an exception that leaves its loop.
C10_StagesStop ==
  /\ Stopping ~> Stopped
  /\ [][ (Stopping /\ pcCap' = "raised") => pcCap = "raised" ]_vars

\* C11: the lifecycle is linear.  self.running becomes true only by the
\* assignment in __init__, before the attribute exists; once destroy_node has
\* set it to false it stays false; a stage thread is started only by
\* __init__, once, and a thread that has left its loop stays out of it.
C11_LifecycleLinear ==
  [][ /\ (~running /\ running') => (pcMain = "running" /\ "running" \notin attrs)
      /\ Stopping => ~running'
      /\ (pcCap = "unstarted" /\ pcCap' # "unstarted")
           => (pcMain = "start_capture" /\ "capture_thread" \notin attrs)
      /\ (pcProc = "unstarted" /\ pcProc' # "unstarted")
           => (pcMain = "start_processing" /\ "processing_thread" \notin attrs)
      /\ pcCap # "unstarted" => pcCap' # "unstarted"
      /\ pcProc # "unstarted" => pcProc' # "unstarted"
      /\ pcCap \in {"done", "raised"} => pcCap' = pcCap
      /\ pcProc = "done" => pcProc' = pcProc ]_vars

\* C11 witness: the whole lifecycle has been run through: destroy_node is
\* over, the flag is false and both threads have left their loops.
C11_Witness ==
  /\ pcMain = "done"
  /\ Stopping
  /\ pcCap = "done"
  /\ pcProc = "done"
  /\ pcPub = "destroyed"

\* C12: a cap.release() that raises in destroy_node is logged and swallowed:
\* destroy_node goes on to super().destroy_node() with an error line written.
C12_ReleaseErrorSwallowed ==
  [][ (pcMain = "release" /\ pcMain' # "release" /\ ~cap_released')
        => (pcMain' = "super" /\ "release_error" \in log') ]_vars

\* C13: a conversion failure in processing_loop writes an error line, leaves
\* both queues as they are, drops the frame and returns to the loop head,
\* from where the loop takes the next raw frame while running is true; a
\* dropped frame is nowhere in the pipeline afterwards.
C13_ConversionFailureDropsFrame ==
  /\ [][ (pcProc = "convert" /\ pcProc' = "while")
           => /\ "processing_error" \in log'
              /\ raw_frame_queue' = raw_frame_queue
              /\ processed_frame_queue' = processed_frame_queue
              /\ procFrame \in discarded'
              /\ procFrame' = NoFrame ]_vars
  /\ [][ (pcProc = "while" /\ running /\ pcProc' # "while") => pcProc' = "get" ]_vars
  /\ [](\A f \in discarded :
          /\ Occurrences(raw_frame_queue, f) = {}
          /\ Occurrences(processed_frame_queue, f) = {}
          /\ procFrame # f)

\* C13 witness: with a frame shape the conversion rejects, an error line is
\* written, the frame is dropped, and the loop holds the next raw frame.
C13_Witness ==
  /\ ConversionRejects(encoding, frame_shape)
  /\ "processing_error" \in log
  /\ discarded # {}
  /\ pcProc = "convert"
  /\ running

\* C14: a publish that raises writes an error line, drops the frame taken on
\* that tick without putting it back on a queue, and ends the callback in
\* the ordinary way; a dropped frame is never published; the timer can fire
\* again whenever the callback is over and rclpy.spin runs.
C14_SinkFailureDropsFrame ==
  /\ [][ (pcPub = "publish" /\ pcPub' # "publish" /\ published' = published)
           => /\ "publish_error" \in log'
              /\ pubFrame \in discarded'
              /\ processed_frame_queue' = processed_frame_queue
              /\ raw_frame_queue' = raw_frame_queue
              /\ pubFrame' = NoFrame
              /\ pcPub' = "idle" ]_vars
  /\ [](\A f \in discarded : Occurrences(published, f) = {})
  /\ []((pcPub = "idle" /\ pcMain = "spin" /\ ~aborted) => ENABLED timer_fire)

\* C14 witness: of two captured frames the first was dropped by a failed
\* publish (nothing else can have dropped it: no queue was ever full and no
\* conversion failed) and a later tick published the second.
C14_Witness ==
  /\ nextFrame = 3
  /\ discarded = {1}
  /\ published = <<2>>
  /\ "publish_error" \in log
  /\ "processing_error" \notin log

\* C15: a read that delivers no frame is followed by the sleep and nothing
\* else, with raw_frame_queue untouched; the sleep is followed by the loop
\* head; and at the loop head with running true the loop reads again.
C15_AbsentReadBacksOff ==
  [][ /\ (pcCap = "reading" /\ pcCap' \notin {"reading", "raised"}
            /\ nextFrame' = nextFrame)
           => (pcCap' = "sleep" /\ raw_frame_queue' = raw_frame_queue)
      /\ (pcCap = "sleep" /\ pcCap' # "sleep")
           => (pcCap' = "while" /\ raw_frame_queue' = raw_frame_queue)
      /\ (pcCap = "while" /\ running /\ pcCap' # "while") => pcCap' = "read" ]_vars

\* C15 witness: the camera has delivered all its frames, the flag is
\* running, and the loop is in its back-off once more.
C15_Witness ==
  /\ pcCap = "sleep"
  /\ running
  /\ nextFrame > MaxFrames

\* C16: while the lifecycle flag is running no stage has been ended: the
\* capture thread and the processing thread are inside their loops (or not
\* yet started, during __init__) and the timer has not been destroyed.
C16_NoStageDiesWhileRunning ==
  running =>
    /\ pcCap \notin {"raised", "done"}
    /\ pcProc # "done"
    /\ pcPub # "destroyed"

\* An error line of the given kind is in the log after the step.
Logged(kind) == kind \in log'

\* C18: every failure a stage absorbs comes with a log line: the absent
\* read, the queue.Empty of a put sequence that drops the new frame, the
\* conversion failure and the publish failure.
C18_NoSilentDiscard ==
  [][ /\ (pcCap = "reading" /\ pcCap' = "sleep") => Logged("read_absent")
      /\ (pcCap = "evict" /\ pcCap' = "while") => Logged("queue_race")
      /\ (pcProc = "evict" /\ pcProc' = "while") => Logged("queue_race")
      /\ (pcProc = "convert" /\ pcProc' = "while") => Logged("processing_error")
      /\ (pcPub = "publish" /\ pcPub' = "idle" /\ published' = published)
           => Logged("publish_error") ]_vars

\* C17: when the camera cannot be opened the process ends in sys.exit with
\* neither queue created, no thread started, no timer and nothing published,
\* and stays there; the process ends at start-up for no other reason, so an
\* unsupported --encoding value alone never ends it.
C17_OpenFailureTerminates ==
  /\ []("open_error" \in log =>
          /\ pcMain = "sys_exit"
          /\ attrs \cap {"raw_frame_queue", "processed_frame_queue",
                         "capture_thread", "processing_thread", "timer"} = {}
          /\ pcCap = "unstarted"
          /\ pcProc = "unstarted"
          /\ pcPub = "none"
          /\ ~running
          /\ published = <<>>)
  /\ [](pcMain = "sys_exit" => "open_error" \in log)
  /\ [][ (Lower(encoding_arg) \notin SupportedEncodings /\ pcMain = "init_encoding")
           => (pcMain' = "open_camera" /\ encoding' = "i420"
               /\ "encoding_warn" \in log') ]_vars
  /\ [][ pcMain = "sys_exit" => pcMain' = "sys_exit" ]_vars

\* C17 witness: an unsupported --encoding value was replaced with a warning,
\* __init__ went on to open the camera, and that failed.
C17_Witness ==
  /\ pcMain = "sys_exit"
  /\ "open_error" \in log
  /\ "encoding_warn" \in log
  /\ encoding = "i420"

\* C19: every published Image has the height and width of the raw frame,
\* the tag of self.encoding, a step of w for i420 and w*3 for rgb8 and bgr8,
\* and carries exactly the values processing_loop packaged for its frame.
C19_PublishedRecordFormat ==
  /\ Len(published_img) = Len(published)
  /\ \A i \in DOMAIN published_img :
       LET img == published_img[i]
           processed_data == packaged[published[i]]
       IN /\ img.height = frame_shape.h
          /\ img.width = frame_shape.w
          /\ img.encoding = encoding
          /\ img.encoding = "i420" => (img.step = frame_shape.w /\ img.step >= img.width)
          /\ img.encoding \in {"rgb8", "bgr8"}
               => (img.step = frame_shape.w * 3 /\ img.step >= img.width * 3)
          /\ img.height = processed_data.h
          /\ img.width = processed_data.w
          /\ img.encoding = processed_data.encoding
          /\ img.step = processed_data.step
          /\ img.data_len = processed_data.data_len

\* C19 witness: an rgb8 frame that is not square has been published.
C19_Witness ==
  /\ Len(published_img) >= 1
  /\ published_img[1].encoding = "rgb8"
  /\ published_img[1].height # published_img[1].width
  /\ published_img[1].step = published_img[1].width * 3

\* C20: a frame packaged as i420 has a payload of w*h*3/2 bytes and a step
\* of w (1,382,400 bytes and 1280 for 1280x720); a frame packaged as rgb8 or
\* bgr8 has a payload of w*h*3 bytes.
C20_PayloadLength ==
  \A f \in DOMAIN packaged :
    LET processed_data == packaged[f]
        w == frame_shape.w
        h == frame_shape.h
    IN /\ processed_data.encoding = "i420" =>
            /\ 2 * processed_data.data_len = w * h * 3
            /\ processed_data.step = w
            /\ (w = 1280 /\ h = 720) =>
                 (processed_data.data_len = 1382400 /\ processed_data.step = 1280)
       /\ processed_data.encoding \in {"rgb8", "bgr8"} =>
            processed_data.data_len = w * h * 3

\* C20 witness: a 1280x720 frame has been packaged as i420 with 1,382,400
\* bytes and a step of 1280.
C20_Witness ==
  \E f \in DOMAIN packaged :
    /\ packaged[f].encoding = "i420"
    /\ packaged[f].w = 1280
    /\ packaged[f].h = 720
    /\ packaged[f].data_len = 1382400
    /\ packaged[f].step = 1280

\* C24: no stage runs before the pipeline is wired.  A thread that has been
\* started finds the capture device, both queues, the flag, the encoding
\* and the frame counter assigned, and the timer exists only once both
\* threads have been started.
C24_WiredBeforeStart ==
  /\ (pcCap # "unstarted" \/ pcProc # "unstarted")
       => {"encoding", "cap", "raw_frame_queue", "processed_frame_queue",
           "running"} \subseteq attrs
  /\ pcPub # "none"
       => /\ {"capture_thread", "processing_thread"} \subseteq attrs
          /\ pcCap # "unstarted"
          /\ pcProc # "unstarted"

\* C24 witness: the processing thread has converted a frame the capture
\* thread queued while __init__ has not yet created the timer.
C24_Witness ==
  /\ pcMain = "create_timer"
  /\ pcPub = "none"
  /\ frame_count >= 1
  /\ pcProc = "put"

\* C25: self.encoding, once assigned, is one of bgr8, rgb8 and i420 and is
\* never assigned again; it is assigned before a thread is started; every
\* published Image carries a tag from that set.
C25_EncodingFixed ==
  /\ []("encoding" \in attrs => encoding \in SupportedEncodings)
  /\ [][ "encoding" \in attrs => encoding' = encoding ]_vars
  /\ []((pcCap # "unstarted" \/ pcProc # "unstarted") => "encoding" \in attrs)
  /\ [](\A i \in DOMAIN published_img :
          published_img[i].encoding \in SupportedEncodings)

\* C25 witness: started with --encoding mono8, the node has published a
\* frame tagged i420.
C25_Witness ==
  /\ encoding_arg = "mono8"
  /\ Len(published_img) >= 1
  /\ published_img[1].encoding = "i420"

\* C26: the get_nowait of a drop-oldest put sequence removes an item only
\* from a queue that holds maxsize items at that moment.
C26_EvictOnlyAtCapacity ==
  [][ /\ (pcCap = "evict" /\ pcCap' = "put_again")
           => Len(raw_frame_queue) = maxsize
      /\ (pcProc = "evict" /\ pcProc' = "put_again")
           => Len(processed_frame_queue) = maxsize ]_vars

\* The message is an analog message with a v object / a gear message.
IsAnalog(data) ==
  /\ data.kind = "object"
  /\ {"type", "v"} \subseteq data.keys
  /\ data.type = "analog"
  /\ data.v_is_object
IsGear(data) ==
  /\ data.kind = "object"
  /\ {"type", "gear"} \subseteq data.keys
  /\ data.type = "gear"

\* C21: update_from_json with an analog message sets each axis whose key is
\* in v to the value given there and the timestamp to t, and leaves every
\* other axis, the gear and the device type as they were; with a gear
\* message it changes the gear and the timestamp and nothing else.
C21_UpdateSetsNamedFieldsOnly ==
  [][ (ctl_result = "none" /\ ctl_result' # "none") =>
        /\ IsAnalog(json_data) =>
             /\ ctl_result' = "True"
             /\ \A f \in AxisFields :
                  ucm'[f] = IF WireKey(f) \in DOMAIN json_data.v
                              THEN json_data.v[WireKey(f)]
                              ELSE ucm[f]
             /\ ucm'.gear = ucm.gear
             /\ ucm'.device_type = ucm.device_type
             /\ ucm'.timestamp =
                  IF "t" \in json_data.keys THEN json_data.t ELSE ucm.timestamp
        /\ IsGear(json_data) =>
             /\ ctl_result' = "True"
             /\ \A f \in AxisFields : ucm'[f] = ucm[f]
             /\ ucm'.gear = json_data.gear
             /\ ucm'.device_type = ucm.device_type
             /\ ucm'.timestamp =
                  IF "t" \in json_data.keys THEN json_data.t ELSE ucm.timestamp ]_vars

\* C21 witness: {"type":"analog","v":{"throttle":0.5},"t":1000} has been
\* applied to an object with gear D and boom and swing at 0.5: throttle is
\* 0.5, the timestamp 1000, and gear, boom and swing are as before.
C21_Witness ==
  /\ ctl_result = "True"
  /\ json_data = JsonMessage("object", {"type", "v", "t"}, "analog", "N", TRUE,
                             [k \in {"throttle"} |-> 5], 1000)
  /\ ucm.throttle = 5
  /\ ucm.timestamp = 1000
  /\ ucm.gear = "D"
  /\ ucm.boom = 5
  /\ ucm.swing = 5
  /\ ucm.brake = 0

\* C22: after control_callback has handled an analog message, every axis
\* the message does not name, and the gear, are in control_data as they
\* were before the message.
C22_CallbackKeepsPriorState ==
  [][ IsAnalog(json_data') =>
        /\ \A f \in AxisFields :
             WireKey(f) \notin DOMAIN json_data'.v
               => control_data'[f] = control_data[f]
        /\ control_data'.gear = control_data.gear ]_vars

\* C23: get_livekit_token never raises; for a transport error, an HTTP error
\* status, a body that is not JSON, a JSON body that is not an object and a
\* missing, null or empty token field it returns None; and it returns a
\* string only when the response carries a non-empty token, which is then
\* the value returned.
TokenFetched == pcScript \notin {"unstarted", "get_token"}
NoTokenOutcome(resp) ==
  \/ resp.kind # "json_object"
  \/ resp.token.kind \in {"absent", "null"}
  \/ resp.token = PyStr("")
C23_TokenNeverRaises ==
  TokenFetched =>
    /\ token.kind # "raised"
    /\ NoTokenOutcome(response) => token = PyNone
    /\ token.kind = "str" =>
         /\ response.kind = "json_object"
         /\ response.token.kind = "str"
         /\ response.token.value # ""
         /\ token = response.token
C23_Witness ==
  /\ TokenFetched
  /\ response = [kind |-> "json_object", token |-> PyStr("jwt-2")]
  /\ token = PyStr("jwt-2")
  /\ room_state = "connected"

\* C28: in both streaming scripts, when get_livekit_token returned None the
\* failure is logged and main returns before room.connect is called: no
\* room is created and no connect call is made.
C28_NoConnectWithoutToken ==
  (TokenFetched /\ token = PyNone) =>
    /\ "token_error" \in stream_log
    /\ room_state = "none"
    /\ connect_token = NoValue

\* C29: every frame submitted to the streaming SDK has a payload of
\* declared width * declared height * bytes per pixel of the declared
\* format (4 for RGBA, 3/2 for I420), whatever the device delivers.
ConsistentFrame(f) ==
  /\ f.type = "RGBA" => f.data_len = f.width * f.height * 4
  /\ f.type = "I420" => 2 * f.data_len = f.width * f.height * 3
C29_DeclaredSizeMatchesPayload == \A f \in video_frames : ConsistentFrame(f)

\* C27: in test_camera_fixed, when a termination signal arrived while the
\* stream loop was running, the camera has been stopped and the room
\* disconnected by the time the event loop is closed.
SignalledWhileStreaming ==
  /\ script = "test_camera_fixed"
  /\ "cleanup" \in stream_log
  /\ pcScript \in {"stream_sleep", "destroyed"}
  /\ camera_state # "none"
C27_ReleasedBeforeLoopClosed ==
  (SignalledWhileStreaming /\ loop_state = "closed") =>
    /\ camera_state = "stopped"
    /\ room_state = "disconnected"

\* C30: once run_test has run for its duration and logged completion, the
\* tester program ends on its own.
C30_TesterEndsAfterTest == (pcRunTest = "done") ~> (pcTester = "exited")

\* C31: in test_camera_fixed, once main has finished without entering the
\* stream loop, the event loop is eventually stopped and closed, no signal
\* being needed.
C31_LoopClosedAfterMain ==
  (script = "test_camera_fixed" /\ pcScript = "done") ~> (loop_state = "closed")

\* C32: while LoadExcClient handles a control message that does not parse
\* (update_from_json returns False or raises), control_data stays exactly
\* as it was; the failure never leaves control_callback; and a tick of the
\* publish timer renders the state control_data holds.
Failing(data) ==
  update_from_json(UnifiedControlMessage(ConstructStamp), data).ret # "True"
C32_FailedParseKeepsState ==
  /\ [](pcCallback # "raised")
  /\ [][ (Failing(json_data') /\ (pcCallback # "idle" \/ pcCallback' # "idle"))
           => (control_data' = control_data /\ control_ref' = control_ref) ]_vars
  /\ [][ (pcTick = "render" /\ pcTick' = "idle")
           => rendered'.control = control_data ]_vars
C32_Witness ==
  /\ ctl_result = "error"
  /\ Failing(json_data)
  /\ pcCallback = "idle"
  /\ pcTick = "render"
  /\ control_data.gear = "D"
  /\ objects[current_control].gear = "D"

\* C33: the publish timer never observes a partially parsed control
\* message: the object control_callback parses into is neither the one in
\* control_data nor the one a tick holds; control_data is assigned only
\* under control_lock, after the parse succeeded; and what a tick renders
\* is a completely parsed state.
Parsing == pcCallback \in {"loads", "assign"}
StripStamp(obj) == [obj EXCEPT !.timestamp = ConstructStamp]
WholeStates ==
  {UnifiedControlMessage(ConstructStamp)} \cup
  {StripStamp(update_from_json(UnifiedControlMessage(ConstructStamp), d).obj) :
     d \in {m \in NodeMessages : ~Failing(m)}}
C33_NoPartialMessageObserved ==
  /\ [](Parsing => new_control \notin {control_ref, current_control})
  /\ [][ control_ref' # control_ref =>
           /\ pcCallback = "install"
           /\ control_lock = "callback"
           /\ ~Failing(json_data)
           /\ StripStamp(control_data') \in WholeStates ]_vars
  /\ [][ (pcTick = "render" /\ pcTick' = "idle")
           => StripStamp(rendered'.control) \in WholeStates ]_vars
C33_Witness ==
  /\ pcTick = "render"
  /\ current_control # control_ref
  /\ pcCallback = "assign"
  /\ objects[current_control].gear = "N"
  /\ control_data.gear = "D"

====
